---- MODULE Spec2Model ----
(***************************************************************************)
(* Crawl control plane of pgroonga-search-engine: the crawl_urls state     *)
(* machine (CrawlRepository / CrawlScheduler), the dispatcher loop with    *)
(* its per-domain Redis lock, and the workers that report crawl outcomes.  *)
(***************************************************************************)
EXTENDS Integers, Sequences, FiniteSets, TLC

\* ---- settings (src/config/settings.py, CrawlerSettings) ----
MAX_DEPTH == 3
DEFAULT_INTERVAL_SECONDS == 86400
ERROR_INTERVAL_SECONDS == 21600
DOMAIN_LOCK_TTL_SECONDS == 60
BASE_SCORE == 100
DEPTH_PENALTY == 10
ERROR_PENALTY == 20
MAX_RETRIES == 5
MAX_URLS_PER_DOMAIN == 1000
MAX_URL_LENGTH == 256
MAX_PATH_SEGMENT_REPEATS == 3
TTL_SECONDS == 300
ROBOTS_CACHE_TTL == 86400
\* SnippetGenerator.MAX_LENGTH
MAX_LENGTH == 120
DOMAIN_COUNT_TTL == 86400
\* run_scheduler_loop: dispatch_pending_jobs(limit=20)
DISPATCH_LIMIT == 20

\* ---- bounds of the model ----
MaxAdvances == 1
MaxCrashes == 1
MaxFaults == 1
MaxCrawled == 1
MaxFetchLimit == 2
MaxQueue == 1
MaxSearches == 2
MaxPuts == 2
MaxQueryLen == 4
MaxTerms == 2
MaxRelations == 2
MaxPieces == 5
MaxRobotsCalls == 3
MaxHrefs == 3
MaxContent == 5
MaxUpserts == 2

\* ---- the URLs of the model and what urlparse / the parser yield for them ----
U0 == "https://a/"
U1 == "https://a/p"
UT == "https://a/t/t/t/t"
URLS == {U0, U1, UT}
SEEDS == {U0}
TARGETS == {U0}
\* the host b has one URL for every place of the dispatcher's SELECT (LIMIT limit * 5)
CROWD_URLS == {"https://b/" \o ToString(i) : i \in 1..(DISPATCH_LIMIT * 5)}
DOMAINS == {"a", "b"}
WORKERS == {1, 2}
DISPATCHERS == {1, 2}

netloc(url) == IF url \in CROWD_URLS THEN "b" ELSE "a"

path_segments(url) ==
  CASE url = U0 -> << >>
    [] url = U1 -> <<"p">>
    [] url = UT -> <<"t", "t", "t", "t">>

\* links the parser extracts from the page at url (same host only)
page_links(url) ==
  CASE url = U0 -> <<U1, UT>>
    [] url = U1 -> <<U0>>
    [] url = UT -> << >>

VARIABLES
  crawl_urls,    \* table crawl_urls: a set of rows
  web_pages,     \* table web_pages: the urls that have a page row
  locks,         \* redis crawl_lock:<domain>: expiry time, 0 when the key is absent
  domain_count,  \* redis stats:domain_count:<domain>: [n, exp]
  queue,         \* the RQ work queue: sequence of [url, depth]
  worker,        \* per worker: [pc, url, depth, todo]
  disp,          \* per dispatcher instance: [pc, cands, count, lock_at]
  now,           \* wall clock, seconds
  used,          \* [advances, crashes, faults]: environment events so far
  last,          \* the operation performed by the last step
  reserved,      \* per url: successful reserves since the last complete (capped at 2)
  fails,         \* per url: consecutive applied failures (capped at MAX_RETRIES + 2)
  last_dispatch, \* per domain: when the locks of the last two completed dispatches were
                 \* acquired, [prev, latest], -1 for none
  search         \* the search side: [cache, search_logs, index_queries, ...]

vars == <<crawl_urls, web_pages, locks, domain_count, queue, worker, disp, now,
          used, last, reserved, fails, last_dispatch, search>>

ELIGIBLE == {"pending", "done", "error"}
STATUSES == {"pending", "crawling", "done", "error", "blocked", "deleted"}
DB_OUTCOMES == {"ok", "execute_error", "commit_error"}

Min(a, b) == IF a < b THEN a ELSE b

\* ---- table helpers ----
RowsOf(t, url) == {r \in t : r.url = url}
HasRow(t, url) == RowsOf(t, url) # {}
TheRow(t, url) == CHOOSE r \in t : r.url = url

\* UPDATE crawl_urls SET status = ... WHERE url = %s
UpdateStatus(t, url, status) ==
  {IF r.url = url THEN [r EXCEPT !.status = status] ELSE r : r \in t}

\* DBTransaction.__exit__: an exception in the body rolls back and propagates;
\* a failing commit is caught and printed, the block ends normally.
Raised(db) == db = "execute_error"
Committed(db) == db = "ok"

\* the outcomes a transaction may have now, and the count of failures after it
DbOutcomes == IF used.faults < MaxFaults THEN DB_OUTCOMES ELSE {"ok"}
Used(db) == IF db = "ok" THEN used ELSE [used EXCEPT !.faults = @ + 1]

\* ---- AnomalyDetector.is_anomalous ----
RECURSIVE SegmentScan(_, _, _, _)
SegmentScan(segments, i, last_segment, repeat_count) ==
  IF i > Len(segments) THEN FALSE
  ELSE LET seg == segments[i]
           rc == IF seg = last_segment THEN repeat_count + 1 ELSE 0
       IN IF rc >= MAX_PATH_SEGMENT_REPEATS THEN TRUE
          ELSE SegmentScan(segments, i + 1, seg, rc)

\* segments = [s for s in path.split('/') if s], of the pieces that split('/') yields
segments_with_empty(pieces) == pieces

segments(pieces) == SelectSeq(pieces, LAMBDA s : s # "")

\* is_anomalous of a URL of this length whose path splits into these pieces
url_is_anomalous(length, pieces) ==
  IF length > MAX_URL_LENGTH THEN TRUE
  ELSE IF segments(pieces) = << >> THEN FALSE
  ELSE SegmentScan(segments(pieces), 1, "", 0)

is_anomalous(url) == url_is_anomalous(Len(url), path_segments(url))

\* ---- AnomalyDetector.check_domain_limit / increment_domain_count ----
CounterValue(dc, domain, t) == IF dc[domain].exp > t THEN dc[domain].n ELSE 0
check_domain_limit_at_max(dc, domain, t) == CounterValue(dc, domain, t) >= MAX_URLS_PER_DOMAIN

check_domain_limit(dc, domain, t) == CounterValue(dc, domain, t) > MAX_URLS_PER_DOMAIN
increment_domain_count(dc, domain, t) ==
  [dc EXCEPT ![domain] = [n |-> CounterValue(dc, domain, t) + 1, exp |-> t + DOMAIN_COUNT_TTL]]

\* ---- CrawlRepository._register_url ----
NewRowFlatScore(url, depth, t, parent) ==
  [url |-> url, depth |-> depth, status |-> "pending", error_count |-> 0,
   score |-> BASE_SCORE, next_crawl_at |-> t, parent |-> parent]

NewRow(url, depth, t, parent) ==
  [url |-> url, depth |-> depth, status |-> "pending", error_count |-> 0,
   score |-> BASE_SCORE - (depth * DEPTH_PENALTY), next_crawl_at |-> t, parent |-> parent]

InsertAlways(t, row) == t \cup {row}

InsertOnConflictDoNothing(t, row) == IF HasRow(t, row.url) THEN t ELSE t \cup {row}

register_url(t, url, depth, robots_ok, db, tm, parent) ==
  IF is_anomalous(url) THEN t
  ELSE IF ~robots_ok THEN t
  ELSE IF ~Committed(db) THEN t
  ELSE InsertOnConflictDoNothing(t, NewRow(url, depth, tm, parent))

\* ---- CrawlRepository.set_crawling_status ----
set_crawling_status(t, url, db) ==
  [rows |-> IF Committed(db) THEN UpdateStatus(t, url, "crawling") ELSE t,
   ret |-> ~Raised(db)]

\* ---- CrawlRepository.mark_blocked ----
mark_blocked_skipped(t, url, db) == t

mark_blocked(t, url, db) == IF Committed(db) THEN UpdateStatus(t, url, "blocked") ELSE t

\* ---- CrawlRepository._delete_url ----
delete_url(t, pages, url) ==
  [rows |-> UpdateStatus(t, url, "deleted"), pages |-> pages \ {url}]

\* ---- CrawlRepository.mark_crawled ----
RetriesExhaustedAtLimit(new_errors) == new_errors >= MAX_RETRIES

RetriesExhaustedLate(new_errors) == new_errors > MAX_RETRIES + 1

\* Max Retries Check
RetriesExhausted(new_errors) == new_errors > MAX_RETRIES

ErrorScoreFromBase(current_score) == BASE_SCORE - ERROR_PENALTY

ErrorScore(current_score) == current_score - ERROR_PENALTY

\* the result: the two tables and whether increment_domain_count was reached
mark_crawled(t, pages, url, success, db, tm) ==
  IF ~HasRow(t, url) THEN [rows |-> t, pages |-> pages, counted |-> FALSE]
  ELSE
    LET row == TheRow(t, url)
        new_errors == IF success THEN 0 ELSE row.error_count + 1
        new_score == IF success THEN BASE_SCORE - (row.depth * DEPTH_PENALTY)
                     ELSE ErrorScore(row.score)
        interval == IF success THEN DEFAULT_INTERVAL_SECONDS ELSE ERROR_INTERVAL_SECONDS
        Upd(r) == [r EXCEPT !.status = IF success THEN "done" ELSE "error",
                            !.next_crawl_at = tm + interval,
                            !.error_count = new_errors,
                            !.score = new_score]
    IN IF ~success /\ RetriesExhausted(new_errors)
       THEN IF Committed(db)
            THEN [rows |-> delete_url(t, pages, url).rows,
                  pages |-> delete_url(t, pages, url).pages, counted |-> FALSE]
            ELSE [rows |-> t, pages |-> pages, counted |-> FALSE]
       ELSE [rows |-> IF Committed(db)
                      THEN {IF r.url = url THEN Upd(r) ELSE r : r \in t}
                      ELSE t,
             pages |-> pages, counted |-> success]


\* ---- CrawlRepository.fetch_pending_jobs / the SELECT of dispatch_pending_jobs ----
\* ORDER BY score DESC, next_crawl_at ASC: r1 is strictly before r2
Before(r1, r2) ==
  \/ r1.score > r2.score
  \/ r1.score = r2.score /\ r1.next_crawl_at < r2.next_crawl_at

DueAtAnyTime(t, tm) == {r \in t : r.status \in ELIGIBLE}

Due(t, tm) == {r \in t : r.status \in ELIGIBLE /\ r.next_crawl_at <= tm}

\* the first n rows of E in that order, in every way the rows that tie may come; with
\* no tie there is one way, and the row at place i has i - 1 rows before it
RECURSIVE OrderedPrefixes(_, _)
OrderedPrefixes(E, n) ==
  IF n = 0 \/ E = {} THEN {<< >>}
  ELSE IF \A x, y \in E : x = y \/ Before(x, y) \/ Before(y, x)
  THEN {[i \in 1..Min(n, Cardinality(E)) |->
           CHOOSE r \in E : Cardinality({y \in E : Before(y, r)}) = i - 1]}
  ELSE UNION {{<<r>> \o rest : rest \in OrderedPrefixes(E \ {r}, n - 1)} :
                r \in {x \in E : \A y \in E : ~Before(y, x)}}

\* every result the SELECT may return: LIMIT limit * 5
fetch_pending_jobs(t, tm, limit) == OrderedPrefixes(Due(t, tm), limit * 5)

Job(r) == [url |-> r.url, depth |-> r.depth]
Jobs(s) == [i \in 1..Len(s) |-> Job(s[i])]

\* ---- RobotsTxtHandler.can_fetch: the answers robots.txt of the host may give ----
ROBOTS_GOVERNED == {U1}
RobotsAnswers(url) == IF url \in ROBOTS_GOVERNED THEN BOOLEAN ELSE {TRUE}

\* ---- redis crawl_lock:<domain> ----
LockExists(lk, domain, tm) == lk[domain] > tm

\* ---- the record of the last step ----
\* op: the operation; ok: its statement took effect in a committed transaction
\* (for register: the url also passed both gates); ret: the value it returned;
Op(op, url, depth, success, ret, ok) ==
  [op |-> op, url |-> url, depth |-> depth, success |-> success, ret |-> ret, ok |-> ok]
Quiet == Op("none", "", 0, FALSE, FALSE, FALSE)

IdleWorker == [pc |-> "idle", url |-> "", depth |-> 0, todo |-> << >>]
IdleDispatcher == [pc |-> "idle", cands |-> << >>, count |-> 0, lock_at |-> 0]

\* ---- initial contents of the database ----
\* a url that failed MAX_RETRIES times in a row since its last successful crawl
FailingRow(url, depth) ==
  [url |-> url, depth |-> depth, status |-> "error", error_count |-> MAX_RETRIES,
   score |-> BASE_SCORE - (depth * DEPTH_PENALTY) - (MAX_RETRIES * ERROR_PENALTY),
   next_crawl_at |-> 0, parent |-> "init"]

InitTables ==
  { {},
    {FailingRow(U0, MAX_DEPTH)},
    {FailingRow(U0, MAX_DEPTH), NewRow(U1, 0, 0, "init")} }

\* the answer of the last search request or cache call: status is the HTTP status (0 for
\* a cache call), q, f and limit the query, the filter entries and the limit it was
\* given, queried and raised tell whether the index was queried and whether that
\* query raised, hit and value are what a cache lookup returned
Resp(status, q, f, limit, queried, raised, hit, value) ==
  [status |-> status, q |-> q, f |-> f, limit |-> limit, queried |-> queried,
   raised |-> raised, hit |-> hit, value |-> value]

NoResp == Resp(0, << >>, {}, 0, FALSE, FALSE, FALSE, << >>)

\* the search side before any request: redis holds no search:* key, search_logs is empty.
\* requests and puts count the calls made; index_queries counts the executions of the
\* index query; stored, served and failed remember, per (query, filters, limit), the
\* last value put, the answered requests and the requests whose index query failed.
\* ids is the last value of the sequence behind search_logs.id; search_id is the id the
\* last request returned (0 for the empty string), issued the ids returned before it and
\* log_db the outcome of its INSERT INTO search_logs; click_logs is the table of that
\* name and click the answer of the last POST /search/click with the outcome of its
\* INSERT; norm is a query given to QueryNormalizer.normalize, its output, the output
\* for that output as input, and the number of calls made (0, 1 or 2); expansion is a
\* query given to SynonymExpander.expand with the dictionary loaded, and its output
NoSearches ==
  [cache |-> {}, search_logs |-> << >>, index_queries |-> 0, requests |-> 0, puts |-> 0,
   stored |-> {}, served |-> {}, failed |-> {}, resp |-> NoResp,
   ids |-> 0, search_id |-> 0, issued |-> {}, log_db |-> "none",
   click_logs |-> << >>, click |-> [status |-> "none", db |-> "none"],
   norm |-> [raw |-> << >>, out |-> << >>, again |-> << >>, calls |-> 0],
   expansion |-> [query |-> << >>, synonyms |-> << >>, out |-> << >>, calls |-> 0],
   anomaly |-> [length |-> 0, pieces |-> << >>, out |-> FALSE, calls |-> 0],
   robots |-> [cache |-> [content |-> "none", exp |-> 0], fetches |-> 0,
               responded_at |-> -1, net_error |-> FALSE, calls |-> 0],
   links |-> [hrefs |-> << >>, out |-> << >>, calls |-> 0],
   snippet |-> [content |-> << >>, query |-> << >>, out |-> << >>, calls |-> 0],
   intent |-> [query |-> << >>, relations |-> {}, synonyms |-> << >>, out |-> << >>,
               expanded |-> << >>, snippet_query |-> << >>, logged |-> << >>,
               db |-> "none", calls |-> 0],
   index |-> [pages |-> {}, images |-> {}, page_images |-> {}, page |-> "",
              record |-> << >>, ret |-> FALSE, db |-> "none", calls |-> 0]]

\* no stats:domain_count:<domain> key in redis
NoCounts == [d \in DOMAINS |-> [n |-> 0, exp |-> 0]]

\* the state after construction with this crawl_urls table, this search side and these
\* domain counters
InitFrom(table, searches, counts) ==
  /\ crawl_urls = table
  /\ web_pages = {r.url : r \in {x \in table : x.status = "error"}}
  /\ locks = [d \in DOMAINS |-> 0]
  /\ domain_count = counts
  /\ queue = << >>
  /\ worker = [w \in WORKERS |-> IdleWorker]
  /\ disp = [d \in DISPATCHERS |-> IdleDispatcher]
  /\ now = 0
  /\ used = [advances |-> 0, crashes |-> 0, faults |-> 0]
  /\ last = Quiet
  /\ reserved = [u \in URLS |-> 0]
  /\ fails = [u \in URLS |-> IF HasRow(table, u) THEN TheRow(table, u).error_count ELSE 0]
  /\ last_dispatch = [d \in DOMAINS |-> [prev |-> -1, latest |-> -1]]
  /\ search = searches

InitOf(table, searches) == InitFrom(table, searches, NoCounts)

InitWith(table) == InitOf(table, NoSearches)

Init == \E table \in InitTables : InitWith(table)


\* ---- seed admission: CrawlRepository.register_seed_url ----
AdminSeed(url) ==
  /\ UNCHANGED search
  /\ \E robots_ok \in RobotsAnswers(url), db \in DbOutcomes :
       /\ crawl_urls' = register_url(crawl_urls, url, 0, robots_ok, db, now, "seed")
       /\ last' = Op("register", url, 0, FALSE, FALSE,
                     ~is_anomalous(url) /\ robots_ok /\ Committed(db))
       /\ used' = Used(db)
       /\ UNCHANGED <<web_pages, locks, domain_count, queue, worker, disp, now,
                      reserved, fails, last_dispatch>>

\* ---- CrawlScheduler.dispatch_pending_jobs: the SELECT that opens a tick ----
DispFetch(d) ==
  /\ UNCHANGED search
  /\ /\ disp[d].pc = "idle"
     /\ \A d2 \in DISPATCHERS : d2 < d => disp[d2].pc # "idle"
     /\ \E db \in DbOutcomes :
          /\ IF Raised(db)
             THEN disp' = disp
             ELSE \E s \in fetch_pending_jobs(crawl_urls, now, DISPATCH_LIMIT) :
                    disp' = [disp EXCEPT ![d] = [pc |-> "loop", cands |-> Jobs(s), count |-> 0,
                                                 lock_at |-> 0]]
          /\ used' = Used(db)
     /\ last' = Quiet
     /\ UNCHANGED <<crawl_urls, web_pages, locks, domain_count, queue, worker, now,
                    reserved, fails, last_dispatch>>

Skip(d) == [disp EXCEPT ![d].cands = Tail(@), ![d].pc = "loop"]

\* ---- dispatch_pending_jobs: the loop head, the lock / quota / robots checks and
\* ---- redis.set(lock_key, 1, ex=lock_ttl, nx=True) for the next candidate ----
DispLock(d) ==
  /\ UNCHANGED search
  /\ /\ disp[d].pc = "loop"
     /\ IF disp[d].cands = << >> \/ disp[d].count >= DISPATCH_LIMIT
        THEN /\ disp' = [disp EXCEPT ![d] = IdleDispatcher]
             /\ last' = Quiet
             /\ UNCHANGED <<crawl_urls, used, locks>>
        ELSE LET url == Head(disp[d].cands).url
                 domain == netloc(url)
             IN IF LockExists(locks, domain, now) \/ check_domain_limit(domain_count, domain, now)
                THEN /\ disp' = Skip(d)
                     /\ last' = IF LockExists(locks, domain, now) THEN Quiet
                                ELSE Op("over_quota", url, 0, FALSE, FALSE, FALSE)
                     /\ UNCHANGED <<crawl_urls, used, locks>>
                ELSE \E robots_ok \in RobotsAnswers(url) :
                       IF robots_ok
                       THEN /\ locks' = [locks EXCEPT ![domain] = now + DOMAIN_LOCK_TTL_SECONDS]
                            /\ disp' = [disp EXCEPT ![d].pc = "reserve", ![d].lock_at = now]
                            /\ last' = Quiet
                            /\ UNCHANGED <<crawl_urls, used>>
                       ELSE \E db \in DbOutcomes :
                              /\ crawl_urls' = mark_blocked(crawl_urls, url, db)
                              /\ disp' = Skip(d)
                              /\ last' = Op("mark_blocked", url, 0, FALSE, FALSE, Committed(db))
                              /\ used' = Used(db)
                              /\ UNCHANGED locks
     /\ UNCHANGED <<web_pages, domain_count, queue, worker, now,
                    reserved, fails, last_dispatch>>

\* AsyncCrawlerClient.enqueue_job(url, depth)
enqueue_job(q, url, depth) == Append(q, [url |-> url, depth |-> depth])

\* ---- dispatch_pending_jobs: _set_crawling_status, then enqueue or release the lock ----
DispReserve(d) ==
  /\ UNCHANGED search
  /\ /\ disp[d].pc = "reserve"
     /\ LET job == Head(disp[d].cands)
            domain == netloc(job.url)
        IN \E db \in DbOutcomes :
             LET res == set_crawling_status(crawl_urls, job.url, db)
             IN /\ crawl_urls' = res.rows
                /\ used' = Used(db)
                /\ last' = Op("reserve", job.url, 0, FALSE, res.ret, Committed(db))
                /\ IF res.ret
                   THEN /\ queue' = enqueue_job(queue, job.url, job.depth)
                        /\ disp' = [disp EXCEPT ![d].cands = Tail(@), ![d].pc = "loop",
                                                ![d].count = @ + 1]
                        /\ reserved' = [reserved EXCEPT ![job.url] = Min(@ + 1, 2)]
                        /\ last_dispatch' = [last_dispatch EXCEPT ![domain] =
                                               [prev |-> @.latest, latest |-> disp[d].lock_at]]
                        /\ UNCHANGED locks
                   ELSE /\ locks' = [locks EXCEPT ![domain] = 0]
                        /\ disp' = Skip(d)
                        /\ UNCHANGED <<queue, reserved, last_dispatch>>
     /\ UNCHANGED <<web_pages, domain_count, worker, now, fails>>

\* ---- an idle RQ worker takes the next work item and fetches the page ----
CanTake(w) ==
  /\ worker[w].pc = "idle"
  /\ \A w2 \in WORKERS : w2 < w => worker[w2].pc # "idle"
  /\ queue # << >>

\* the worker's call of CrawlRepository.mark_crawled and what it leaves behind
Complete(w, url, success) ==
  \E db \in DbOutcomes :
    LET res == mark_crawled(crawl_urls, web_pages, url, success, db, now)
        applied == Committed(db) /\ HasRow(crawl_urls, url)
    IN /\ crawl_urls' = res.rows
       /\ web_pages' = res.pages
       /\ domain_count' = IF res.counted /\ ~Raised(db)
                          THEN increment_domain_count(domain_count, netloc(url), now)
                          ELSE domain_count
       /\ worker' = [worker EXCEPT ![w] = IdleWorker]
       /\ used' = Used(db)
       /\ last' = Op("complete", url, 0, success, FALSE, applied)
       /\ reserved' = IF applied THEN [reserved EXCEPT ![url] = 0] ELSE reserved
       /\ fails' = IF ~applied THEN fails
                   ELSE IF success THEN [fails EXCEPT ![url] = 0]
                   ELSE [fails EXCEPT ![url] = Min(@ + 1, MAX_RETRIES + 2)]
       /\ UNCHANGED <<locks, disp, now, last_dispatch>>

\* ---- perform_crawl_job: fetch or parse failed ----
WorkerFetchFail(w) ==
  /\ UNCHANGED search
  /\ /\ CanTake(w)
     /\ queue' = Tail(queue)
     /\ Complete(w, Head(queue).url, FALSE)

\* ---- CrawlRepository.process_discovered_links: the links it goes on to register ----
process_discovered_links_unbounded(links, parent_depth) == links

process_discovered_links(links, parent_depth) ==
  IF parent_depth + 1 > MAX_DEPTH THEN << >> ELSE links

\* the worker with these links left to register
Discovering(w, job, links) ==
  [worker EXCEPT ![w] = [pc |-> IF links = << >> THEN "complete" ELSE "links",
                         url |-> job.url, depth |-> job.depth, todo |-> links]]

\* ---- perform_crawl_job: page fetched and parsed, Indexer.upsert_page ----
WorkerIndex(w) ==
  /\ UNCHANGED search
  /\ /\ CanTake(w)
     /\ queue' = Tail(queue)
     /\ LET job == Head(queue)
        IN \E db \in DbOutcomes :
             /\ web_pages' = IF Committed(db) THEN web_pages \cup {job.url} ELSE web_pages
             /\ worker' = IF Raised(db)
                          THEN [worker EXCEPT ![w] = [pc |-> "fail", url |-> job.url,
                                                      depth |-> job.depth, todo |-> << >>]]
                          ELSE Discovering(w, job, process_discovered_links(page_links(job.url),
                                                                           job.depth))
             /\ used' = Used(db)
             /\ last' = Op("upsert_page", job.url, 0, FALSE, ~Raised(db), Committed(db))
     /\ UNCHANGED <<crawl_urls, locks, domain_count, disp, now,
                    reserved, fails, last_dispatch>>

\* ---- perform_crawl_job: indexing failed ----
WorkerIndexFailed(w) ==
  /\ UNCHANGED search
  /\ /\ worker[w].pc = "fail"
     /\ Complete(w, worker[w].url, FALSE)
     /\ UNCHANGED queue

\* ---- process_discovered_links: _register_url of the next link ----
WorkerDiscover(w) ==
  /\ UNCHANGED search
  /\ /\ worker[w].pc = "links"
     /\ LET url == Head(worker[w].todo)
        IN \E robots_ok \in RobotsAnswers(url), db \in DbOutcomes :
             /\ crawl_urls' = register_url(crawl_urls, url, worker[w].depth + 1, robots_ok,
                                           db, now, worker[w].url)
             /\ worker' = Discovering(w, worker[w], Tail(worker[w].todo))
             /\ used' = Used(db)
             /\ last' = Op("register", url, worker[w].depth + 1, FALSE, FALSE,
                           ~is_anomalous(url) /\ robots_ok /\ Committed(db))
     /\ UNCHANGED <<web_pages, locks, domain_count, queue, disp, now,
                    reserved, fails, last_dispatch>>

\* ---- perform_crawl_job: report success ----
WorkerComplete(w) ==
  /\ UNCHANGED search
  /\ /\ worker[w].pc = "complete"
     /\ Complete(w, worker[w].url, TRUE)
     /\ UNCHANGED queue

\* ---- the worker process dies, or RQ kills the job at JOB_TIMEOUT ----
WorkerCrash(w) ==
  /\ UNCHANGED search
  /\ /\ used.crashes < MaxCrashes
     /\ used' = [used EXCEPT !.crashes = @ + 1]
     /\ \/ CanTake(w) /\ queue' = Tail(queue) /\ UNCHANGED worker
        \/ worker[w].pc # "idle" /\ worker' = [worker EXCEPT ![w] = IdleWorker] /\ UNCHANGED queue
     /\ last' = Quiet
     /\ UNCHANGED <<crawl_urls, web_pages, locks, domain_count, disp, now,
                    reserved, fails, last_dispatch>>

\* ---- time passes ----
TimeSteps == {DOMAIN_LOCK_TTL_SECONDS, ERROR_INTERVAL_SECONDS}

Advance(dt) ==
  /\ UNCHANGED search
  /\ /\ used.advances < MaxAdvances
     /\ used' = [used EXCEPT !.advances = @ + 1]
     /\ now' = now + dt
     /\ last' = Quiet
     /\ UNCHANGED <<crawl_urls, web_pages, locks, domain_count, queue, worker, disp,
                    reserved, fails, last_dispatch>>

Next ==
  \/ \E url \in SEEDS : AdminSeed(url)
  \/ \E d \in DISPATCHERS : DispFetch(d)
  \/ \E d \in DISPATCHERS : DispLock(d)
  \/ \E d \in DISPATCHERS : DispReserve(d)
  \/ \E w \in WORKERS : WorkerFetchFail(w)
  \/ \E w \in WORKERS : WorkerIndex(w)
  \/ \E w \in WORKERS : WorkerIndexFailed(w)
  \/ \E w \in WORKERS : WorkerDiscover(w)
  \/ \E w \in WORKERS : WorkerComplete(w)
  \/ \E w \in WORKERS : WorkerCrash(w)
  \/ \E dt \in TimeSteps : Advance(dt)

Spec == Init /\ [][Next]_vars

\* The dispatcher loop of every worker process runs for ever (crawler_worker.py) and an
\* rq worker takes the queued jobs one after another: each of their steps is taken when it
\* stays possible. Nothing obliges a seed admission, a crash or a fault to happen.
FairSpec ==
  /\ Spec
  /\ \A d \in DISPATCHERS :
       WF_vars(DispFetch(d)) /\ WF_vars(DispLock(d)) /\ WF_vars(DispReserve(d))
  /\ \A w \in WORKERS :
       /\ WF_vars(WorkerFetchFail(w) \/ WorkerIndex(w))
       /\ WF_vars(WorkerIndexFailed(w)) /\ WF_vars(WorkerDiscover(w))
       /\ WF_vars(WorkerComplete(w))
  /\ WF_vars(\E dt \in TimeSteps : Advance(dt))

\* ---- the repository under an arbitrary caller: every operation, on any url, in any order ----
RepoFrame == UNCHANGED <<locks, queue, worker, disp, last_dispatch>>

RepoRegisterSeed(url) == AdminSeed(url)

\* a worker that crawls parent at the depth of its row registers one of the page's links
RepoDiscover(parent) ==
  /\ UNCHANGED search
  /\ /\ HasRow(crawl_urls, parent)
     /\ page_links(parent) # << >>
     /\ LET depth == TheRow(crawl_urls, parent).depth
            links == process_discovered_links(page_links(parent), depth)
        IN IF links = << >>
           THEN /\ last' = Op("cutoff", parent, depth, FALSE, FALSE, FALSE)
                /\ UNCHANGED <<crawl_urls, used>>
           ELSE \E i \in 1..Len(links) :
                  \E robots_ok \in RobotsAnswers(links[i]), db \in DbOutcomes :
                    /\ crawl_urls' = register_url(crawl_urls, links[i], depth + 1, robots_ok, db,
                                                  now, parent)
                    /\ last' = Op("register", links[i], depth + 1, FALSE, FALSE,
                                  ~is_anomalous(links[i]) /\ robots_ok /\ Committed(db))
                    /\ used' = Used(db)
     /\ UNCHANGED <<web_pages, domain_count, now, reserved, fails>>
     /\ RepoFrame

RepoReserve(url) ==
  /\ UNCHANGED search
  /\ /\ \E db \in DbOutcomes :
          LET res == set_crawling_status(crawl_urls, url, db)
          IN /\ crawl_urls' = res.rows
             /\ used' = Used(db)
             /\ last' = Op("reserve", url, 0, FALSE, res.ret, Committed(db))
             /\ reserved' = IF res.ret THEN [reserved EXCEPT ![url] = Min(@ + 1, 2)] ELSE reserved
     /\ UNCHANGED <<web_pages, domain_count, now, fails>>
     /\ RepoFrame

\* the counter is followed from zero and from just below MAX_URLS_PER_DOMAIN
Followed(n) ==
  \/ n < MaxCrawled
  \/ MAX_URLS_PER_DOMAIN - 1 <= n /\ n < MAX_URLS_PER_DOMAIN + MaxCrawled

RepoComplete(url, success) ==
  /\ UNCHANGED search
  /\ /\ success => Followed(CounterValue(domain_count, netloc(url), now))
     /\ \E db \in DbOutcomes :
          LET res == mark_crawled(crawl_urls, web_pages, url, success, db, now)
              applied == Committed(db) /\ HasRow(crawl_urls, url)
          IN /\ crawl_urls' = res.rows
             /\ web_pages' = res.pages
             /\ domain_count' = IF res.counted /\ ~Raised(db)
                                THEN increment_domain_count(domain_count, netloc(url), now)
                                ELSE domain_count
             /\ used' = Used(db)
             /\ last' = Op("complete", url, 0, success, FALSE, applied)
             /\ reserved' = IF applied THEN [reserved EXCEPT ![url] = 0] ELSE reserved
             /\ fails' = IF ~applied THEN fails
                         ELSE IF success THEN [fails EXCEPT ![url] = 0]
                         ELSE [fails EXCEPT ![url] = Min(@ + 1, MAX_RETRIES + 2)]
     /\ UNCHANGED now
     /\ RepoFrame

RepoBlock(url) ==
  /\ UNCHANGED search
  /\ /\ \E db \in DbOutcomes :
          /\ crawl_urls' = mark_blocked(crawl_urls, url, db)
          /\ used' = Used(db)
          /\ last' = Op("mark_blocked", url, 0, FALSE, FALSE, Committed(db))
     /\ UNCHANGED <<web_pages, domain_count, now, reserved, fails>>
     /\ RepoFrame

RepoUpsert(url) ==
  /\ UNCHANGED search
  /\ /\ \E db \in DbOutcomes :
          /\ web_pages' = IF Committed(db) THEN web_pages \cup {url} ELSE web_pages
          /\ used' = Used(db)
          /\ last' = Op("upsert_page", url, 0, FALSE, ~Raised(db), Committed(db))
     /\ UNCHANGED <<crawl_urls, domain_count, now, reserved, fails>>
     /\ RepoFrame

\* seeds are admitted from SEEDS, links are discovered on every page, and the other
\* operations act on TARGETS
RepoNext ==
  \/ \E url \in SEEDS : RepoRegisterSeed(url)
  \/ \E url \in URLS : RepoDiscover(url)
  \/ \E url \in TARGETS : RepoReserve(url)
  \/ \E url \in TARGETS, success \in BOOLEAN : RepoComplete(url, success)
  \/ \E url \in TARGETS : RepoBlock(url)
  \/ \E url \in TARGETS : RepoUpsert(url)
  \/ Advance(ERROR_INTERVAL_SECONDS)

RepoSpec == Init /\ [][RepoNext]_vars

\* ---- the worker as perform_crawl_job has it, fed by POST /admin/crawl ----
SUBMITTED == {U0, U1}

\* trigger_crawl_endpoint: client.enqueue_jobs(url_strings); the job carries the url only
TriggerCrawl(url) ==
  /\ UNCHANGED search
  /\ /\ Len(queue) < MaxQueue
     /\ queue' = Append(queue, [url |-> url, depth |-> 0])
     /\ last' = Op("admin_crawl", url, 0, FALSE, FALSE, TRUE)
     /\ UNCHANGED <<crawl_urls, web_pages, locks, domain_count, worker, disp, now, used,
                    reserved, fails, last_dispatch>>

\* perform_crawl_job: 1. Frequency Check says no, the job returns
JobSkip(w) ==
  /\ UNCHANGED search
  /\ /\ CanTake(w)
     /\ queue' = Tail(queue)
     /\ last' = Op("skip", Head(queue).url, 0, FALSE, FALSE, FALSE)
     /\ UNCHANGED <<crawl_urls, web_pages, locks, domain_count, worker, disp, now, used,
                    reserved, fails, last_dispatch>>

\* perform_crawl_job: 2. Web Crawling gave page_data, 3. Indexing; 4. Status Update is next
JobIndex(w) ==
  /\ UNCHANGED search
  /\ /\ CanTake(w)
     /\ CounterValue(domain_count, netloc(Head(queue).url), now) < MaxCrawled
     /\ queue' = Tail(queue)
     /\ LET job == Head(queue)
        IN \E db \in DbOutcomes :
             /\ web_pages' = IF Committed(db) THEN web_pages \cup {job.url} ELSE web_pages
             /\ worker' = [worker EXCEPT ![w] =
                             [pc |-> IF Raised(db) THEN "fail" ELSE "complete",
                              url |-> job.url, depth |-> job.depth, todo |-> << >>]]
             /\ used' = Used(db)
             /\ last' = Op("upsert_page", job.url, 0, FALSE, ~Raised(db), Committed(db))
     /\ UNCHANGED <<crawl_urls, locks, domain_count, disp, now,
                    reserved, fails, last_dispatch>>

\* rq raises JobTimeoutException in the job at JOB_TIMEOUT. While the page is fetched or
\* indexed the job's own handlers turn it into a failed fetch or a failed indexing (the
\* steps above); raised in the status update it rolls the transaction back and
\* mark_crawled's handler swallows it.
JobTimeout(w) ==
  /\ UNCHANGED search
  /\ /\ used.crashes < MaxCrashes
     /\ worker[w].pc \in {"fail", "complete"}
     /\ used' = [used EXCEPT !.crashes = @ + 1]
     /\ worker' = [worker EXCEPT ![w] = IdleWorker]
     /\ last' = Op("timeout", worker[w].url, 0, FALSE, FALSE, FALSE)
     /\ UNCHANGED <<crawl_urls, web_pages, locks, domain_count, queue, disp, now,
                    reserved, fails, last_dispatch>>

JobInit == Init \/ InitWith({NewRow(U1, 0, 0, "init")})

JobNext ==
  \/ \E url \in TARGETS : RepoReserve(url)
  \/ \E url \in SUBMITTED : TriggerCrawl(url)
  \/ \E w \in WORKERS : JobSkip(w)
  \/ \E w \in WORKERS : WorkerFetchFail(w)
  \/ \E w \in WORKERS : JobIndex(w)
  \/ \E w \in WORKERS : WorkerIndexFailed(w)
  \/ \E w \in WORKERS : WorkerComplete(w)
  \/ \E w \in WORKERS : JobTimeout(w)

JobSpec == JobInit /\ [][JobNext]_vars

\* the same workers on the jobs of one url, without timeouts
WorkNext ==
  \/ \E url \in TARGETS : RepoReserve(url)
  \/ \E url \in TARGETS : TriggerCrawl(url)
  \/ \E w \in WORKERS : JobSkip(w)
  \/ \E w \in WORKERS : WorkerFetchFail(w)
  \/ \E w \in WORKERS : JobIndex(w)
  \/ \E w \in WORKERS : WorkerIndexFailed(w)
  \/ \E w \in WORKERS : WorkerComplete(w)

WorkSpec == Init /\ [][WorkNext]_vars

\* ---- the search side: QueryNormalizer, RedisCacheManager, SearchService, /search ----
\* a query is the sequence of its code points: 97 'a', 98 'b', 65313 fullwidth 'A',
\* 32 space, 9 tab, 12288 ideographic space
RAW_QUERIES ==
  {<< >>, <<12288, 9>>, <<32, 65313, 12288>>}

\* unicodedata.normalize('NFKC', query) on these code points
nfkc(query) ==
  [i \in 1..Len(query) |->
     IF query[i] = 65313 THEN 65 ELSE IF query[i] = 12288 THEN 32 ELSE query[i]]

\* str.lower
lower(query) ==
  [i \in 1..Len(query) |-> IF query[i] \in 65..90 THEN query[i] + 32 ELSE query[i]]

\* the characters \s and str.strip take for whitespace
IsSpace(c) == c \in {9, 10, 11, 12, 13, 32, 12288}

\* re.sub(r'\s+', ' ', s): every run of whitespace becomes one space
RECURSIVE collapse_whitespace(_)
collapse_whitespace(s) ==
  IF s = << >> THEN << >>
  ELSE IF ~IsSpace(s[1]) THEN <<s[1]>> \o collapse_whitespace(Tail(s))
  ELSE IF Len(s) > 1 /\ IsSpace(s[2]) THEN collapse_whitespace(Tail(s))
  ELSE <<32>> \o collapse_whitespace(Tail(s))

\* str.strip
RECURSIVE strip_leading(_)
strip_leading(s) ==
  IF s = << >> THEN << >>
  ELSE IF IsSpace(s[1]) THEN strip_leading(Tail(s))
  ELSE s

RECURSIVE strip(_)
strip(s) ==
  IF s = << >> THEN << >>
  ELSE IF IsSpace(s[1]) THEN strip(Tail(s))
  ELSE IF IsSpace(s[Len(s)]) THEN strip(SubSeq(s, 1, Len(s) - 1))
  ELSE s

\* QueryNormalizer.normalize
normalize(query) ==
  IF query = << >> THEN << >> ELSE strip(collapse_whitespace(lower(nfkc(query))))

\* filters are a dict: here the sequence of its <<name, value>> entries in insertion order
FILTER_NAMES == <<"category", "domain">>
CATEGORY == <<"category", "tech">>
DOMAIN_FILTER == <<"domain", "a">>
Entries(filters) == {filters[i] : i \in 1..Len(filters)}

\* json.dumps(..., sort_keys=True) writes the entries of a dict ordered by name
NameRank(name) == CHOOSE i \in 1..Len(FILTER_NAMES) : FILTER_NAMES[i] = name

RECURSIVE sort_keys(_)
sort_keys(filters) ==
  IF filters = << >> THEN << >>
  ELSE LET i == CHOOSE j \in 1..Len(filters) :
                  \A k \in 1..Len(filters) : NameRank(filters[j][1]) <= NameRank(filters[k][1])
       IN <<filters[i]>> \o sort_keys(SubSeq(filters, 1, i - 1) \o SubSeq(filters, i + 1, Len(filters)))

\* RedisCacheManager._generate_key: "search:" and the sha256 of the serialized payload;
\* the digest is taken to be one-to-one on payloads and is modelled by the payload
generate_key_unsorted(query, filters, limit) == <<"search:", query, filters, limit>>

generate_key(query, filters, limit) == <<"search:", query, sort_keys(filters), limit>>

\* json.dumps / json.loads of a result list (a list of scores): the text is the
\* sequence of its tokens, -1 for '[', -2 for ']', -3 for ','
RECURSIVE json_items(_)
json_items(result) ==
  IF result = << >> THEN << >>
  ELSE IF Len(result) = 1 THEN <<result[1]>>
  ELSE <<result[1], -3>> \o json_items(Tail(result))

json_dumps(result) == <<-1>> \o json_items(result) \o <<-2>>

RECURSIVE json_values(_)
json_values(text) ==
  IF text = << >> THEN << >>
  ELSE IF text[1] = -3 THEN json_values(Tail(text))
  ELSE <<text[1]>> \o json_values(Tail(text))

json_loads(text) == json_values(SubSeq(text, 2, Len(text) - 1))

\* redis GET: a key set with SETEX is gone once its ttl has passed
RedisGet(cache, key, tm) == {e \in cache : e.key = key /\ tm < e.exp}

\* RedisCacheManager.get_cached_result: a redis error is printed and counts as a miss
get_cached_result(cache, query, filters, limit, redis_ok, tm) ==
  LET found == RedisGet(cache, generate_key(query, filters, limit), tm)
  IN IF redis_ok /\ found # {} /\ (CHOOSE e \in found : TRUE).data # << >>
     THEN [hit |-> TRUE, value |-> json_loads((CHOOSE e \in found : TRUE).data)]
     ELSE [hit |-> FALSE, value |-> << >>]

\* RedisCacheManager.set_cached_result: SETEX key ttl data; a redis error is printed
set_cached_result(cache, query, filters, limit, result, redis_ok, tm) ==
  LET key == generate_key(query, filters, limit)
  IN IF ~redis_ok THEN cache
     ELSE {e \in cache : e.key # key}
            \cup {[key |-> key, data |-> json_dumps(result), exp |-> tm + TTL_SECONDS]}

\* the crawl side stays as it is during a search request or a cache call
CrawlFrame ==
  UNCHANGED <<crawl_urls, web_pages, locks, domain_count, queue, worker, disp,
              reserved, fails, last_dispatch>>

RedisAnswers == IF used.faults < MaxFaults THEN {TRUE, FALSE} ELSE {TRUE}
LIMITS == {1, 2}
RESULT_LISTS == {<< >>, <<2, 1>>}

\* the calls made of the cache: <<query, filters, limit>>; the lookups are for one query
\* with two filters at limit 1, given in either order of the entries, the stores also
\* for another query, for one filter less and for another limit
LOOKUPS ==
  {<<normalize(<<32, 65313, 12288>>), <<CATEGORY, DOMAIN_FILTER>>, 1>>,
   <<normalize(<<32, 65313, 12288>>), <<DOMAIN_FILTER, CATEGORY>>, 1>>}
STORES ==
  LOOKUPS \cup {<<normalize(<<97, 9, 32, 98>>), <<CATEGORY, DOMAIN_FILTER>>, 1>>,
                <<normalize(<<32, 65313, 12288>>), <<CATEGORY>>, 1>>,
                <<normalize(<<32, 65313, 12288>>), <<CATEGORY, DOMAIN_FILTER>>, 2>>}
CacheSteps == {1, TTL_SECONDS}

\* what is remembered about (query, filters, limit), filters taken as a set of entries
About(set, query, filters, limit) ==
  {x \in set : x.q = query /\ x.f = Entries(filters) /\ x.limit = limit}

\* ---- RedisCacheManager under any caller ----
CachePut(query, filters, limit, result) ==
  /\ search.puts < MaxPuts
  /\ \E redis_ok \in RedisAnswers :
       /\ search' = [search EXCEPT
            !.cache = set_cached_result(@, query, filters, limit, result, redis_ok, now),
            !.puts = @ + 1,
            !.stored = IF ~redis_ok THEN @
                       ELSE (@ \ About(@, query, filters, limit))
                              \cup {[q |-> query, f |-> Entries(filters), limit |-> limit,
                                     value |-> result, at |-> now]},
            !.resp = NoResp]
       /\ used' = IF redis_ok THEN used ELSE [used EXCEPT !.faults = @ + 1]
       /\ last' = Op("cache_put", "", limit, FALSE, FALSE, redis_ok)
  /\ UNCHANGED now
  /\ CrawlFrame

CacheGet(query, filters, limit) ==
  /\ \E redis_ok \in RedisAnswers :
       LET got == get_cached_result(search.cache, query, filters, limit, redis_ok, now)
       IN /\ search' = [search EXCEPT
                 !.resp = Resp(0, query, Entries(filters), limit, FALSE, FALSE,
                               got.hit, got.value)]
          /\ used' = IF redis_ok THEN used ELSE [used EXCEPT !.faults = @ + 1]
          /\ last' = Op("cache_get", "", limit, FALSE, got.hit, redis_ok)
  /\ UNCHANGED now
  /\ CrawlFrame

SearchInit == InitWith({})

CacheNext ==
  \/ \E c \in STORES, result \in RESULT_LISTS : CachePut(c[1], c[2], c[3], result)
  \/ \E c \in LOOKUPS : CacheGet(c[1], c[2], c[3])
  \/ \E dt \in CacheSteps : Advance(dt)

CacheSpec == SearchInit /\ [][CacheNext]_vars

\* ---- GET /search: search_endpoint and SearchService.execute_search ----
\* the filters dict the endpoint builds from its parameters
EndpointFilters(category, domain) ==
  (IF category # "" THEN <<<<"category", category>>>> ELSE << >>)
    \o (IF domain # "" THEN <<<<"domain", domain>>>> ELSE << >>)

\* SearchService.log_search_query: INSERT INTO search_logs ... RETURNING id. An exception
\* of the INSERT is printed and the search goes on with an empty search id (0 here); the
\* id of an INSERT whose commit fails is returned although no row is kept. ids is the
\* sequence of the id column.
log_search_query_raw_only(logs, ids, raw_query, normalized_query, db) ==
  [search_logs |-> IF Committed(db)
                   THEN Append(logs, [id |-> ids + 1, query |-> raw_query,
                                      normalized_query |-> raw_query])
                   ELSE logs,
   ids |-> IF Raised(db) THEN ids ELSE ids + 1,
   search_id |-> IF Raised(db) THEN 0 ELSE ids + 1]

log_search_query(logs, ids, raw_query, normalized_query, db) ==
  [search_logs |-> IF Committed(db)
                   THEN Append(logs, [id |-> ids + 1, query |-> raw_query,
                                      normalized_query |-> normalized_query])
                   ELSE logs,
   ids |-> IF Raised(db) THEN ids ELSE ids + 1,
   search_id |-> IF Raised(db) THEN 0 ELSE ids + 1]

\* the index: the scores of the pages that match a non-empty query, best first
PAGE_SCORES == <<2, 1>>

\* SearchService._query_database: SELECT ... ORDER BY score DESC LIMIT limit; an
\* exception of the query leaves the function
query_database_swallowing(pgroonga_query, filters, limit, db) ==
  [raised |-> FALSE,
   rows |-> IF Raised(db) \/ pgroonga_query = << >> THEN << >>
            ELSE SubSeq(PAGE_SCORES, 1, Min(limit, Len(PAGE_SCORES)))]

query_database(pgroonga_query, filters, limit, db) ==
  [raised |-> Raised(db),
   rows |-> IF Raised(db) \/ pgroonga_query = << >> THEN << >>
            ELSE SubSeq(PAGE_SCORES, 1, Min(limit, Len(PAGE_SCORES)))]

\* one request: the endpoint, execute_search and the answer. The cache lookup and the
\* cache store of execute_search are commented out in the source (lines 43-46, 68-69);
\* the intent and synonym expansions only read and change nothing kept here.
Search(q, category, domain, limit) ==
  /\ search.requests < MaxSearches
  /\ LET filters == EndpointFilters(category, domain)
         normalized_query == normalize(q)
         this == [q |-> normalized_query, f |-> Entries(filters), limit |-> limit]
     IN IF Len(q) < 1
        THEN \* Query(..., min_length=1): the request is answered 422 before the handler
             /\ search' = [search EXCEPT
                  !.requests = @ + 1,
                  !.search_id = 0,
                  !.issued = IF search.search_id = 0 THEN @ ELSE @ \cup {search.search_id},
                  !.log_db = "none",
                  !.resp = Resp(422, q, Entries(filters), limit, FALSE, FALSE, FALSE, << >>)]
             /\ used' = used
        ELSE \E db_log \in DbOutcomes, db_query \in DbOutcomes :
               LET faults == used.faults + (IF db_log = "ok" THEN 0 ELSE 1)
                                         + (IF db_query = "ok" THEN 0 ELSE 1)
                   found == query_database(normalized_query, filters, limit, db_query)
                   logged == log_search_query(search.search_logs, search.ids, q,
                                              normalized_query, db_log)
               IN /\ faults <= MaxFaults
                  /\ used' = [used EXCEPT !.faults = faults]
                  /\ search' = [search EXCEPT
                       !.requests = @ + 1,
                       !.search_logs = logged.search_logs,
                       !.ids = logged.ids,
                       !.search_id = IF found.raised THEN 0 ELSE logged.search_id,
                       !.issued = IF search.search_id = 0 THEN @ ELSE @ \cup {search.search_id},
                       !.log_db = db_log,
                       !.index_queries = @ + 1,
                       !.served = IF Raised(db_query) THEN @
                                  ELSE (@ \ About(@, normalized_query, filters, limit))
                                         \cup {[q |-> normalized_query, f |-> Entries(filters),
                                                limit |-> limit, at |-> now]},
                       !.failed = IF Raised(db_query) THEN @ \cup {this} ELSE @,
                       !.resp = Resp(IF found.raised THEN 500 ELSE 200, q, Entries(filters),
                                     limit, TRUE, Raised(db_query), FALSE, found.rows)]
  /\ last' = Op("search", "", limit, FALSE, FALSE, TRUE)
  /\ UNCHANGED now
  /\ CrawlFrame

SearchNext ==
  \/ \E q \in RAW_QUERIES, category \in {"", "tech"}, domain \in {"a"}, limit \in LIMITS :
       Search(q, category, domain, limit)
  \/ Advance(TTL_SECONDS)

SearchSpec == SearchInit /\ [][SearchNext]_vars

\* ---- POST /search/click: log_click_endpoint and SearchService.log_click ----
\* SearchService.log_click: INSERT INTO click_logs; True unless the block raises
log_click(clicks, search_id, url, rank, db) ==
  [click_logs |-> IF Committed(db)
                  THEN Append(clicks, [search_log_id |-> search_id, url |-> url, rank |-> rank])
                  ELSE clicks,
   success |-> ~Raised(db)]

LogClick(search_id, url, rank) ==
  /\ search.requests < MaxSearches
  /\ \E db \in DbOutcomes :
       LET logged == log_click(search.click_logs, search_id, url, rank, db)
       IN /\ search' = [search EXCEPT
                 !.requests = @ + 1,
                 !.click_logs = logged.click_logs,
                 !.click = [status |-> IF logged.success THEN "ok" ELSE "error", db |-> db]]
          /\ used' = Used(db)
  /\ last' = Op("click", url, rank, FALSE, FALSE, TRUE)
  /\ UNCHANGED now
  /\ CrawlFrame

ClickNext ==
  \E search_id \in 1..2, url \in TARGETS \cup {U1}, rank \in 1..2 : LogClick(search_id, url, rank)

ClickSpec == SearchInit /\ [][ClickNext]_vars

\* ---- QueryNormalizer.normalize on its own ----
\* the code points queries are made of: 'a', 'A', fullwidth 'A', space, tab and
\* ideographic space
CODE_POINTS == {97, 65, 65313, 32, 9, 12288}
QUERIES == UNION {[1..n -> CODE_POINTS] : n \in 0..MaxQueryLen}

NormalizeInit ==
  \E q \in QUERIES :
    InitOf({}, [NoSearches EXCEPT !.norm.raw = q])

Normalize ==
  /\ search.norm.calls = 0
  /\ search' = [search EXCEPT !.norm.out = normalize(search.norm.raw), !.norm.calls = 1]
  /\ last' = Op("normalize", "", 0, FALSE, FALSE, TRUE)
  /\ UNCHANGED <<now, used>>
  /\ CrawlFrame

NormalizeAgain ==
  /\ search.norm.calls = 1
  /\ search' = [search EXCEPT !.norm.again = normalize(search.norm.out), !.norm.calls = 2]
  /\ last' = Op("normalize", "", 0, FALSE, FALSE, TRUE)
  /\ UNCHANGED <<now, used>>
  /\ CrawlFrame

NormalizeNext == Normalize \/ NormalizeAgain

NormalizeSpec == NormalizeInit /\ [][NormalizeNext]_vars

\* ---- SynonymExpander.expand on its own ----
\* a normalized query is the sequence of its terms (str.split), a term is a number and the
\* order of the numbers is the order of the strings; the dictionary gives every term its
\* list of synonyms as listed in the file (empty for a term that is not a key). In the
\* expanded query -1 is '(', -2 is ')', -3 is ' OR ' and 0 is the space between groups.
TERMS == 1..3
SYNONYM_LISTS == {<< >>, <<2>>, <<2, 3>>, <<3, 2>>, <<3, 3, 2>>, <<1, 3>>}
DICTIONARIES == [TERMS -> SYNONYM_LISTS]
TERM_QUERIES == UNION {[1..n -> TERMS] : n \in 0..MaxTerms}

\* sorted(list(...)) of a set
RECURSIVE sorted(_)
sorted(set) ==
  IF set = {} THEN << >>
  ELSE LET least == CHOOSE x \in set : \A y \in set : x <= y
       IN <<least>> \o sorted(set \ {least})

\* variants = sorted(list(set([term] + syn_list)))
variants_as_listed(term, syn_list) == <<term>> \o syn_list

variants(term, syn_list) ==
  sorted({(<<term>> \o syn_list)[i] : i \in 1..(Len(syn_list) + 1)})

\* ' OR '.join(variants)
RECURSIVE join_or(_)
join_or(vs) ==
  IF Len(vs) <= 1 THEN vs ELSE <<vs[1], -3>> \o join_or(Tail(vs))

\* the group of one term
group(term, syn_list) ==
  LET vs == variants(term, syn_list)
  IN IF Len(vs) > 1 THEN <<-1>> \o join_or(vs) \o <<-2>> ELSE <<term>>

\* SynonymExpander.expand: " ".join of the groups of the terms
RECURSIVE expand(_, _)
expand(query, synonyms) ==
  IF query = << >> THEN << >>
  ELSE IF Len(query) = 1 THEN group(query[1], synonyms[query[1]])
  ELSE group(query[1], synonyms[query[1]]) \o <<0>> \o expand(Tail(query), synonyms)

ExpandInit ==
  \E query \in TERM_QUERIES, synonyms \in DICTIONARIES :
    InitOf({}, [NoSearches EXCEPT !.expansion.query = query,
                                  !.expansion.synonyms = synonyms])

Expand ==
  /\ search.expansion.calls = 0
  /\ search' = [search EXCEPT
       !.expansion.out = expand(search.expansion.query, search.expansion.synonyms),
       !.expansion.calls = 1]
  /\ last' = Op("expand", "", 0, FALSE, FALSE, TRUE)
  /\ UNCHANGED <<now, used>>
  /\ CrawlFrame

ExpandNext == Expand

ExpandSpec == ExpandInit /\ [][ExpandNext]_vars

\* ---- SearchService.expand_query_intent and the query each stage of a search gets ----
\* a query is the sequence of its words as for the synonyms, and the word OR that the
\* intent expansion writes is -4; a score of query_relations is held in hundredths
OR_WORD == -4
INTENT_SCORES == {79, 80, 90}
RELATION_ROWS ==
  [source_query : {<<1>>, <<1, 2>>}, target_query : {<<2>>, <<3>>}, score : INTENT_SCORES]
RELATION_TABLES == {t \in SUBSET RELATION_ROWS : Cardinality(t) <= MaxRelations}
INTENT_DICTIONARIES ==
  {[t \in TERMS |-> << >>], [t \in TERMS |-> IF t = 1 THEN <<2>> ELSE << >>]}

\* WHERE ... AND score >= 0.8
high_confidence_above(score) == score > 80

high_confidence(score) == score >= 80

\* SELECT target_query, score FROM query_relations WHERE source_query = %s AND
\* score >= 0.8 ORDER BY score DESC LIMIT 1: the rows fetchone may return (any of the
\* rows that share the best score)
best_relations(relations, normalized_query) ==
  LET rows == {r \in relations :
                 r.source_query = normalized_query /\ high_confidence(r.score)}
  IN {r \in rows : \A o \in rows : o.score <= r.score}

\* expand_query_intent: f"{normalized_query} OR {res[0]}" of the row fetched, and the
\* query itself when there is no row or the SELECT raised. The values it may return.
expand_query_intent(relations, normalized_query, db) ==
  IF Raised(db) \/ best_relations(relations, normalized_query) = {}
  THEN {normalized_query}
  ELSE {normalized_query \o <<OR_WORD>> \o res.target_query :
          res \in best_relations(relations, normalized_query)}

\* self.synonyms.get(term, []) for the words of an intent-expanded query
with_or_word(synonyms) ==
  [t \in (DOMAIN synonyms) \cup {OR_WORD} |->
     IF t \in DOMAIN synonyms THEN synonyms[t] ELSE << >>]

IntentInit ==
  \E query \in TERM_QUERIES, relations \in RELATION_TABLES,
     synonyms \in INTENT_DICTIONARIES :
    InitOf({}, [NoSearches EXCEPT !.intent.query = query,
                                  !.intent.relations = relations,
                                  !.intent.synonyms = synonyms])

\* execute_search, steps 2 to 6: log_search_query(raw_query, normalized_query),
\* expand_query_intent(normalized_query), expander.expand(intent_query),
\* _query_database(expanded_query, ...), SnippetGenerator.generate(content,
\* normalized_query)
ExpandIntent ==
  /\ search.intent.calls = 0
  /\ \E db \in DbOutcomes :
       \E intent_query \in expand_query_intent(search.intent.relations,
                                               search.intent.query, db) :
         /\ search' = [search EXCEPT
              !.intent.logged = search.intent.query,
              !.intent.out = intent_query,
              !.intent.expanded = expand(intent_query,
                                         with_or_word(search.intent.synonyms)),
              !.intent.snippet_query = search.intent.query,
              !.intent.db = db,
              !.intent.calls = 1]
         /\ used' = Used(db)
  /\ last' = Op("expand_query_intent", "", 0, FALSE, FALSE, TRUE)
  /\ UNCHANGED now
  /\ CrawlFrame

IntentNext == ExpandIntent

IntentSpec == IntentInit /\ [][IntentNext]_vars

\* ---- AnomalyDetector.is_anomalous on URLs around the two limits ----
\* len(url) at and on either side of MAX_URL_LENGTH
URL_LENGTHS == {MAX_URL_LENGTH - 1, MAX_URL_LENGTH, MAX_URL_LENGTH + 1}
\* what path.split('/') yields: names, and "" for a doubled or trailing slash
PIECES == {"", "a", "b"}
PATHS == UNION {[1..n -> PIECES] : n \in 0..MaxPieces}

AnomalyInit ==
  \E length \in URL_LENGTHS, pieces \in PATHS :
    InitOf({}, [NoSearches EXCEPT !.anomaly.length = length, !.anomaly.pieces = pieces])

IsAnomalous ==
  /\ search.anomaly.calls = 0
  /\ search' = [search EXCEPT
       !.anomaly.out = url_is_anomalous(search.anomaly.length, search.anomaly.pieces),
       !.anomaly.calls = 1]
  /\ last' = Op("is_anomalous", "", 0, FALSE, FALSE, TRUE)
  /\ UNCHANGED <<now, used>>
  /\ CrawlFrame

AnomalyNext == IsAnomalous

AnomalySpec == AnomalyInit /\ [][AnomalyNext]_vars

\* ---- the dispatchers on a host whose counter is near MAX_URLS_PER_DOMAIN ----
\* the counter after that many successful crawls of the host in the last 24 h
QUOTA_COUNTS == {MAX_URLS_PER_DOMAIN - 1, MAX_URLS_PER_DOMAIN, MAX_URLS_PER_DOMAIN + 1}

QuotaTable == {NewRow(U0, 0, 0, "init"), NewRow(U1, 1, 0, U0)}

QuotaInit ==
  \/ InitWith(QuotaTable)
  \/ \E n \in QUOTA_COUNTS :
       InitFrom(QuotaTable, NoSearches,
                [d \in DOMAINS |-> [n |-> n, exp |-> DOMAIN_COUNT_TTL]])

\* one scheduler loop, tick after tick
QuotaNext ==
  \/ DispFetch(1)
  \/ DispLock(1)
  \/ DispReserve(1)
  \/ \E url \in TARGETS : RepoComplete(url, TRUE)
  \/ Advance(DOMAIN_LOCK_TTL_SECONDS)
  \/ Advance(DOMAIN_COUNT_TTL)

QuotaSpec == QuotaInit /\ [][QuotaNext]_vars

\* ---- RobotsTxtHandler.can_fetch with its redis cache robots:<domain> ----
\* what GET <scheme>://<domain>/robots.txt may give: a status with a body ("allow" and
\* "deny" stand for rules that allow and disallow every path, "" is the empty body),
\* or status 0 for an exception of httpx
ROBOTS_RESPONSES ==
  {[status |-> 200, body |-> b] : b \in {"", "allow", "deny"}}
    \cup {[status |-> st, body |-> ""] : st \in {0, 404, 500}}

\* redis.get(cache_key): None ("none") for an absent or expired key
robots_cached(cache, t) ==
  IF cache.content # "none" /\ cache.exp > t THEN cache.content ELSE "none"

\* rp.can_fetch(user_agent, url) after rp.parse(content.splitlines())
rp_can_fetch(content) == content # "deny"

\* can_fetch: the cache after the call, the answer and whether the network was asked
can_fetch(cache, resp, t) ==
  LET cached_content == robots_cached(cache, t)
  IN IF cached_content \notin {"none", ""}
     THEN [cache |-> cache, answer |-> rp_can_fetch(cached_content), fetched |-> FALSE]
     ELSE IF resp.status = 0
     THEN [cache |-> cache, answer |-> TRUE, fetched |-> TRUE]
     ELSE IF resp.status = 200
     THEN [cache |-> [content |-> resp.body, exp |-> t + ROBOTS_CACHE_TTL],
           answer |-> rp_can_fetch(resp.body), fetched |-> TRUE]
     ELSE [cache |-> [content |-> "", exp |-> t + ROBOTS_CACHE_TTL],
           answer |-> TRUE, fetched |-> TRUE]

CanFetch(url, resp) ==
  /\ search.robots.calls < MaxRobotsCalls
  /\ LET res == can_fetch(search.robots.cache, resp, now)
     IN /\ search' = [search EXCEPT
             !.robots.cache = res.cache,
             !.robots.fetches = IF res.fetched THEN @ + 1 ELSE @,
             !.robots.responded_at = IF res.fetched /\ resp.status # 0 THEN now ELSE @,
             !.robots.net_error = res.fetched /\ resp.status = 0,
             !.robots.calls = @ + 1]
        /\ last' = Op("can_fetch", url, resp.status, FALSE, res.answer, res.fetched)
  /\ UNCHANGED <<now, used>>
  /\ CrawlFrame

RobotsNext ==
  \/ \E url \in URLS, resp \in ROBOTS_RESPONSES : CanFetch(url, resp)
  \/ Advance(ROBOTS_CACHE_TTL)

RobotsSpec == SearchInit /\ [][RobotsNext]_vars

\* ---- LinkExtractor.extract_links_from_soup on a page of https://a/ ----
\* an href of the page: whether the raw text starts with mailto:, tel:, javascript: or
\* '#', and the parts urlparse finds in urljoin(base_url, raw_href)
Href(ignored, scheme, host, path, query, fragment) ==
  [ignored |-> ignored, scheme |-> scheme, netloc |-> host, path |-> path,
   query |-> query, fragment |-> fragment]

HREFS ==
  {Href(FALSE, "https", "a", "/p", "", ""),
   Href(FALSE, "https", "a", "/p", "", "top"),
   Href(FALSE, "https", "a", "/p", "q=1", ""),
   Href(FALSE, "https", "a", "/login", "", ""),
   Href(FALSE, "https", "b", "/p", "", ""),
   Href(FALSE, "ftp", "a", "/p", "", ""),
   Href(TRUE, "mailto", "", "x@a", "", "")}

HREF_LISTS == UNION {[1..n -> HREFS] : n \in 0..MaxHrefs}

\* the paths of the model that contain /login, /logout, /signout or /admin
EXCLUDED_PATHS == {"/login"}

is_ignored_scheme(href) == href.ignored

is_valid_target(url) ==
  /\ url.netloc = netloc(U0)
  /\ url.path \notin EXCLUDED_PATHS
  /\ url.scheme \in {"http", "https"}

\* _normalize: urlunparse with the fragment removed, of a link that is kept
normalize_url(url) == [url EXCEPT !.fragment = ""]

\* the set links after the loop over the a tags
extract_links_from_soup(hrefs) ==
  {normalize_url(hrefs[i]) :
     i \in {j \in 1..Len(hrefs) : ~is_ignored_scheme(hrefs[j]) /\ is_valid_target(hrefs[j])}}

\* list(links): the members of a set of str in the order its hash table yields them,
\* which differs from process to process
ListsOf(set) ==
  {l \in [1..Cardinality(set) -> set] : \A i, j \in 1..Cardinality(set) : l[i] = l[j] => i = j}

LinkInit ==
  \E hrefs \in HREF_LISTS : InitOf({}, [NoSearches EXCEPT !.links.hrefs = hrefs])

ExtractLinks ==
  /\ search.links.calls = 0
  /\ \E out \in ListsOf(extract_links_from_soup(search.links.hrefs)) :
       search' = [search EXCEPT !.links.out = out, !.links.calls = 1]
  /\ last' = Op("extract_links", "", 0, FALSE, FALSE, TRUE)
  /\ UNCHANGED <<now, used>>
  /\ CrawlFrame

LinkNext == ExtractLinks

LinkSpec == LinkInit /\ [][LinkNext]_vars

\* ---- SnippetGenerator.generate ----
\* content is the sequence of its code points (97 'a', 98 'b', 32 space, 46 '.',
\* 63 '?'); a query is the sequence of the terms query.split() yields
CONTENT_POINTS == {97, 98, 32, 46, 63}
CONTENTS == UNION {[1..n -> CONTENT_POINTS] : n \in 0..MaxContent}
SNIPPET_QUERIES == {<< >>, <<<<97>>>>, <<<<97>>, <<98>>>>, <<<<98>>, <<98>>, <<97>>>>}

\* the characters of the lookbehind in r'(?<=[.!\u3002])\s+'
SENTENCE_ENDS == {46, 33, 12290}

\* re.split(r'(?<=[ends])\s+', content), from position i with the piece begun at start
RECURSIVE split_sentences(_, _, _, _)
split_sentences(content, ends, i, start) ==
  IF i > Len(content) THEN <<SubSeq(content, start, Len(content))>>
  ELSE IF i > 1 /\ IsSpace(content[i]) /\ content[i - 1] \in ends
  THEN LET rest == {j \in (i + 1)..Len(content) : ~IsSpace(content[j])}
           next == IF rest = {} THEN Len(content) + 1
                   ELSE CHOOSE j \in rest : \A k \in rest : j <= k
       IN <<SubSeq(content, start, i - 1)>> \o split_sentences(content, ends, next, next)
  ELSE split_sentences(content, ends, i + 1, start)

\* term in s_lower
Contains(text, term) ==
  \E i \in 0..(Len(text) - Len(term)) : SubSeq(text, i + 1, i + Len(term)) = term

\* score: one for every term of the list found in the lowercased sentence
sentence_score(sentence, terms) ==
  Cardinality({k \in 1..Len(terms) : Contains(lower(sentence), terms[k])})

\* _truncate
truncate(text) ==
  IF Len(text) <= MAX_LENGTH THEN text ELSE SubSeq(text, 1, MAX_LENGTH) \o <<46, 46, 46>>

generate(content, query) ==
  LET terms == [k \in 1..Len(query) |-> lower(query[k])]
      sentences == split_sentences(content, SENTENCE_ENDS, 1, 1)
      max_score == CHOOSE m \in 0..Len(terms) :
                     /\ \E i \in 1..Len(sentences) : sentence_score(sentences[i], terms) = m
                     /\ \A i \in 1..Len(sentences) : sentence_score(sentences[i], terms) <= m
      best == CHOOSE i \in 1..Len(sentences) :
                /\ sentence_score(sentences[i], terms) = max_score
                /\ \A j \in 1..(i - 1) : sentence_score(sentences[j], terms) < max_score
  IN IF content = << >> THEN << >>
     ELSE IF terms = << >> THEN truncate(content)
     ELSE IF max_score <= 0 THEN truncate(content)
     ELSE truncate(sentences[best])

SnippetInit ==
  \E content \in CONTENTS, query \in SNIPPET_QUERIES :
    InitOf({}, [NoSearches EXCEPT !.snippet.content = content, !.snippet.query = query])

Generate ==
  /\ search.snippet.calls = 0
  /\ search' = [search EXCEPT
       !.snippet.out = generate(search.snippet.content, search.snippet.query),
       !.snippet.calls = 1]
  /\ last' = Op("snippet", "", 0, FALSE, FALSE, TRUE)
  /\ UNCHANGED <<now, used>>
  /\ CrawlFrame

SnippetNext == Generate

SnippetSpec == SnippetInit /\ [][SnippetNext]_vars

\* ---- Indexer.upsert_page: web_pages, images and page_images ----
\* the images of a parsed page, each with its hash and the url it was found at
IMAGE_LISTS ==
  {<< >>,
   <<[hash |-> 1, url |-> "x"]>>,
   <<[hash |-> 1, url |-> "y"], [hash |-> 2, url |-> "z"]>>,
   <<[hash |-> 2, url |-> "z"], [hash |-> 2, url |-> "x"]>>}

\* INSERT INTO images ... ON CONFLICT (image_hash) DO NOTHING, for the images in turn
RECURSIVE register_images(_, _)
register_images(assets, images) ==
  IF images = << >> THEN assets
  ELSE register_images(
         IF \E a \in assets : a.hash = images[1].hash THEN assets
         ELSE assets \cup {[hash |-> images[1].hash, canonical_url |-> images[1].url]},
         Tail(images))

\* upsert_batch([page_data]) on the three tables: the tables after it and upsert_page's
\* result; an exception of a statement rolls back and gives 0, a failing commit is
\* caught in DBTransaction.__exit__ and the count is returned
upsert_page(index, page_url, images, db) ==
  LET done == [pages |-> index.pages \cup {page_url},
               images |-> register_images(index.images, images),
               page_images |-> {l \in index.page_images : l.page_url # page_url}
                                 \cup {[page_url |-> page_url, hash |-> images[i].hash] :
                                          i \in 1..Len(images)}]
      kept == [pages |-> index.pages, images |-> index.images,
               page_images |-> index.page_images]
  IN [tables |-> IF Committed(db) THEN done ELSE kept, ret |-> ~Raised(db)]

UpsertPage(page_url, images) ==
  /\ search.index.calls < MaxUpserts
  /\ \E db \in DbOutcomes :
       LET res == upsert_page(search.index, page_url, images, db)
       IN /\ search' = [search EXCEPT
               !.index.pages = res.tables.pages,
               !.index.images = res.tables.images,
               !.index.page_images = res.tables.page_images,
               !.index.page = page_url, !.index.record = images,
               !.index.ret = res.ret, !.index.db = db,
               !.index.calls = @ + 1]
          /\ used' = Used(db)
          /\ last' = Op("upsert", page_url, 0, FALSE, res.ret, Committed(db))
  /\ UNCHANGED now
  /\ CrawlFrame

IndexNext == \E page_url \in {U0, U1}, images \in IMAGE_LISTS : UpsertPage(page_url, images)

IndexSpec == SearchInit /\ [][IndexNext]_vars

\* ---- the dispatchers alone: ticks of dispatch_pending_jobs while time passes ----
DispNext ==
  \/ \E d \in DISPATCHERS : DispFetch(d)
  \/ \E d \in DISPATCHERS : DispLock(d)
  \/ \E d \in DISPATCHERS : DispReserve(d)
  \/ Advance(DOMAIN_LOCK_TTL_SECONDS)

DispSpec == Init /\ [][DispNext]_vars

\* ---- the dispatchers while redis may be unreachable ----
\* dispatch_pending_jobs: redis.exists(lock_key) raises a ConnectionError for the next
\* candidate; nothing in the loop catches it, run_scheduler_loop prints it and sleeps,
\* and the rest of the tick is lost
\* run_scheduler_loop: 'except Exception' prints, sleeps 30 s and goes round the
\* 'while True' again: the tick is over and the next one starts from the SELECT
loop_ended(ds, d) == [ds EXCEPT ![d] = [IdleDispatcher EXCEPT !.pc = "ended"]]

catch_and_backoff(ds, d) == [ds EXCEPT ![d] = IdleDispatcher]

DispRedisDown(d) ==
  /\ UNCHANGED search
  /\ disp[d].pc = "loop"
  /\ disp[d].cands # << >> /\ disp[d].count < DISPATCH_LIMIT
  /\ used.faults < MaxFaults
  /\ used' = [used EXCEPT !.faults = @ + 1]
  /\ disp' = catch_and_backoff(disp, d)
  /\ last' = Op("redis_down", Head(disp[d].cands).url, 0, FALSE, FALSE, FALSE)
  /\ UNCHANGED <<crawl_urls, web_pages, locks, domain_count, queue, worker, now,
                 reserved, fails, last_dispatch>>

\* dispatch_pending_jobs: _set_crawling_status returned True and client.enqueue_job
\* raises (AsyncCrawlerClient defines enqueue_jobs only; rq cannot reach redis); no
\* handler in the loop catches it, so the lock is not released, the row is not reset
\* and the rest of the tick is lost
DispEnqueueFails(d) ==
  /\ UNCHANGED search
  /\ disp[d].pc = "reserve"
  /\ LET job == Head(disp[d].cands)
     IN \E db \in DbOutcomes :
          LET res == set_crawling_status(crawl_urls, job.url, db)
          IN /\ res.ret
             /\ crawl_urls' = res.rows
             /\ used' = [used EXCEPT !.faults = @ + 1]
             /\ last' = Op("enqueue_failed", job.url, 0, FALSE, res.ret, Committed(db))
             /\ reserved' = [reserved EXCEPT ![job.url] = Min(@ + 1, 2)]
  /\ used.faults < MaxFaults
  /\ disp' = catch_and_backoff(disp, d)
  /\ UNCHANGED <<web_pages, locks, domain_count, queue, worker, now, fails, last_dispatch>>

OutageNext ==
  \/ \E d \in DISPATCHERS : DispFetch(d)
  \/ \E d \in DISPATCHERS : DispLock(d)
  \/ \E d \in DISPATCHERS : DispReserve(d)
  \/ \E d \in DISPATCHERS : DispRedisDown(d)
  \/ \E d \in DISPATCHERS : DispEnqueueFails(d)
  \/ Advance(DOMAIN_LOCK_TTL_SECONDS)

OutageSpec == Init /\ [][OutageNext]_vars

\* ---- one scheduler loop that goes on after a failed tick ----
\* time passes until the crawl_lock of a domain expires
AdvanceToExpiry ==
  /\ UNCHANGED search
  /\ \E domain \in DOMAINS :
       /\ LockExists(locks, domain, now)
       /\ now' = locks[domain]
  /\ last' = Quiet
  /\ UNCHANGED <<crawl_urls, web_pages, locks, domain_count, queue, worker, disp, used,
                 reserved, fails, last_dispatch>>

RecoverNext ==
  \/ DispFetch(1)
  \/ DispLock(1)
  \/ DispReserve(1)
  \/ DispRedisDown(1)
  \/ DispEnqueueFails(1)
  \/ AdvanceToExpiry

\* the loop never stops taking its steps, and time never stops
RecoverSpec ==
  /\ InitWith(QuotaTable)
  /\ [][RecoverNext]_vars
  /\ WF_vars(DispFetch(1)) /\ WF_vars(DispLock(1)) /\ WF_vars(DispReserve(1))
  /\ WF_vars(AdvanceToExpiry)

\* ---- one scheduler loop and a host over its quota that fills the SELECT ----
\* U0 found at depth 1, due since time 0
StarvedRow == NewRow(U0, 1, 0, "init")

\* the seeds of host b, registered one by one before time 0 and due ever since
CrowdTable ==
  {NewRow("https://b/" \o ToString(i), 0, i - (DISPATCH_LIMIT * 5) - 1, "init") :
     i \in 1..(DISPATCH_LIMIT * 5)}

\* stats:domain_count:b is over MAX_URLS_PER_DOMAIN, host a has no counter
CrowdCounts ==
  [d \in DOMAINS |-> IF d = "b" THEN [n |-> MAX_URLS_PER_DOMAIN + 1, exp |-> DOMAIN_COUNT_TTL]
                     ELSE [n |-> 0, exp |-> 0]]

\* the table with the crowd of host b, and the table with U0 alone
StarveInit ==
  \/ InitFrom(CrowdTable \cup {StarvedRow}, NoSearches, CrowdCounts)
  \/ InitWith({StarvedRow})

StarveNext ==
  \/ DispFetch(1)
  \/ DispLock(1)
  \/ DispReserve(1)
  \/ AdvanceToExpiry

StarveSpec ==
  /\ StarveInit
  /\ [][StarveNext]_vars
  /\ WF_vars(DispFetch(1)) /\ WF_vars(DispLock(1)) /\ WF_vars(DispReserve(1))
  /\ WF_vars(AdvanceToExpiry)

\* ---- fetch_pending_jobs on tables with more due rows than the LIMIT lets through ----
FETCH_URLS == <<"https://a/1", "https://a/2", "https://a/3", "https://a/4", "https://a/5",
                "https://a/6", "https://a/7">>

FetchRow(i, status, score, next_crawl_at) ==
  [url |-> FETCH_URLS[i], depth |-> 0, status |-> status, error_count |-> 0,
   score |-> score, next_crawl_at |-> next_crawl_at, parent |-> "init"]

\* five pending rows that are due, some with equal scores, and two rows of any status,
\* due or not
FetchTables ==
  {{FetchRow(1, "pending", 100, 0), FetchRow(2, "pending", 90, 0),
    FetchRow(3, "pending", 90, 0), FetchRow(4, "pending", 80, 0),
    FetchRow(5, "pending", 80, 0),
    FetchRow(6, st6, sc6, nx6), FetchRow(7, st7, sc7, nx7)} :
      st6 \in STATUSES, sc6 \in {90, 110}, nx6 \in {0, DOMAIN_LOCK_TTL_SECONDS},
      st7 \in STATUSES, sc7 \in {90, 110}, nx7 \in {0, DOMAIN_LOCK_TTL_SECONDS}}

FetchInit == \E table \in FetchTables : InitWith(table)

\* CrawlRepository.fetch_pending_jobs(limit): the rows it returns are kept in disp[1].cands
FetchDue(limit) ==
  /\ UNCHANGED search
  /\ /\ \E db \in DbOutcomes :
          /\ \E s \in (IF Raised(db) THEN {<< >>}
                       ELSE fetch_pending_jobs(crawl_urls, now, limit)) :
               disp' = [disp EXCEPT ![1].cands = Jobs(s)]
          /\ used' = Used(db)
          /\ last' = Op("fetch_due", "", limit, FALSE, ~Raised(db), Committed(db))
     /\ UNCHANGED <<crawl_urls, web_pages, locks, domain_count, queue, worker, now,
                    reserved, fails, last_dispatch>>

FetchNext == \E limit \in 0..MaxFetchLimit : FetchDue(limit)

FetchSpec == FetchInit /\ [][FetchNext]_vars

\* ---- properties ----
StatusOf(url) == TheRow(crawl_urls, url).status

\* C1: for one url, of the reserves attempted without a complete in between, at most
\* one reports success.
C1_AtMostOneReserveSucceeds == \A url \in URLS : reserved[url] <= 1

\* C2: a reserve returns true, or sets the status to crawling, only for a url whose
\* status is pending, done or error; for a url that is crawling, blocked, deleted or has
\* no record it returns false and leaves crawl_urls as it was.
C2_ReserveOnlyWhenEligible ==
  [][last'.op = "reserve" =>
       LET pre == RowsOf(crawl_urls, last'.url)
           eligible == pre # {} /\ \A r \in pre : r.status \in ELIGIBLE
       IN /\ last'.ret => eligible
          /\ crawl_urls' # crawl_urls => eligible
          /\ ~eligible => ~last'.ret /\ crawl_urls' = crawl_urls]_vars

\* C3: a url whose status is crawling eventually has another status.
Crawling(url) == HasRow(crawl_urls, url) /\ StatusOf(url) = "crawling"

C3_NoUrlCrawlingForever == \A url \in URLS : Crawling(url) ~> ~Crawling(url)

\* C4: a failing complete that is the (MAX_RETRIES + 1)-th or later in a row leaves the url
\* deleted and without a page row; an earlier one in the row leaves it in status error.
C4_RetryBudget ==
  \A url \in URLS :
    (last.op = "complete" /\ last.url = url /\ last.ok /\ ~last.success) =>
       /\ fails[url] >= MAX_RETRIES + 1 => StatusOf(url) = "deleted" /\ url \notin web_pages
       /\ fails[url] <= MAX_RETRIES => StatusOf(url) = "error"

\* the sixth failure in a row of a url that was admitted as a seed in this run
C4_Witness ==
  /\ last.op = "complete" /\ last.url = U0 /\ last.ok /\ ~last.success
  /\ fails[U0] = MAX_RETRIES + 1
  /\ HasRow(crawl_urls, U0) /\ TheRow(crawl_urls, U0).parent = "seed"
  /\ StatusOf(U0) = "deleted"

\* C5: a url whose status is deleted has no page row.
C5_DeletedHasNoPage ==
  \A r \in crawl_urls : r.status = "deleted" => r.url \notin web_pages

\* C6: crawl_urls holds at most one row per url.
C6_OneRowPerUrl ==
  \A r1, r2 \in crawl_urls : r1.url = r2.url => r1 = r2

\* a registration that met a row of the url which is no longer as registered
C6_Witness ==
  /\ last.op = "register" /\ last.ok
  /\ HasRow(crawl_urls, last.url)
  /\ StatusOf(last.url) # "pending"

\* C7 as claimed: a register whose transaction succeeds creates the pending row of an absent
\* url and leaves the row of a present url as it is.
C7_RegisterCreatesWhenAbsent ==
  [][(last'.op = "register" /\ used' = used) =>
       LET url == last'.url
       IN IF HasRow(crawl_urls, url)
          THEN crawl_urls' = crawl_urls
          ELSE \E r \in crawl_urls' :
                 /\ crawl_urls' = crawl_urls \cup {r}
                 /\ r.url = url /\ r.status = "pending" /\ r.next_crawl_at = now
                 /\ r.score = BASE_SCORE - (last'.depth * DEPTH_PENALTY)]_vars

\* C7 amended: register creates the pending row (depth as given, error_count 0,
\* next_crawl_at = now, score = BASE_SCORE - depth * DEPTH_PENALTY) of an absent url that
\* is not anomalous and allowed by robots.txt when its INSERT commits; otherwise, and for
\* every url that has a row, it leaves crawl_urls unchanged.
C7_RegisterInsertIfAbsent ==
  [][last'.op = "register" =>
       LET url == last'.url
       IN IF HasRow(crawl_urls, url) \/ is_anomalous(url) \/ ~last'.ok
          THEN crawl_urls' = crawl_urls
          ELSE \E r \in crawl_urls' :
                 /\ crawl_urls' = crawl_urls \cup {r}
                 /\ r.url = url /\ r.status = "pending" /\ r.next_crawl_at = now
                 /\ r.depth = last'.depth /\ r.error_count = 0
                 /\ r.score = BASE_SCORE - (last'.depth * DEPTH_PENALTY)]_vars

\* a link registered at depth 1 some time after the start
C7_Witness ==
  /\ last.op = "register" /\ last.ok /\ last.url = U1 /\ last.depth = 1
  /\ now > 0
  /\ RowsOf(crawl_urls, U1) = {NewRow(U1, 1, now, U0)}

\* C8: no row is deeper than MAX_DEPTH, and a row registered from a page is one level
\* below the row of that page.
C8_DepthBounded ==
  \A r \in crawl_urls :
    /\ r.depth <= MAX_DEPTH
    /\ r.parent \in URLS =>
         HasRow(crawl_urls, r.parent) /\ r.depth = TheRow(crawl_urls, r.parent).depth + 1

\* the links of a page at MAX_DEPTH were dropped
C8_Witness ==
  /\ last.op = "cutoff" /\ last.url = U0 /\ last.depth = MAX_DEPTH
  /\ ~HasRow(crawl_urls, U1)

\* C9: two completed dispatches of one domain acquired the domain lock at least
\* DOMAIN_LOCK_TTL_SECONDS apart.
Apart(t1, t2) == IF t1 >= t2 THEN t1 - t2 ELSE t2 - t1

C9_OneDispatchPerWindow ==
  \A d \in DOMAINS :
    last_dispatch[d].prev >= 0 =>
      Apart(last_dispatch[d].latest, last_dispatch[d].prev) >= DOMAIN_LOCK_TTL_SECONDS

\* C10: an applied complete writes the record computed from the stored error_count,
\* depth and score.
C10_CompleteComputesRecord ==
  [][(last'.op = "complete" /\ last'.ok) =>
       LET r == TheRow(crawl_urls, last'.url)
           r2 == TheRow(crawl_urls', last'.url)
       IN IF last'.success
          THEN r2 = [r EXCEPT !.status = "done", !.error_count = 0,
                              !.score = BASE_SCORE - (r.depth * DEPTH_PENALTY),
                              !.next_crawl_at = now + DEFAULT_INTERVAL_SECONDS]
          ELSE r.error_count + 1 <= MAX_RETRIES =>
                 r2 = [r EXCEPT !.status = "error", !.error_count = r.error_count + 1,
                                !.score = r.score - ERROR_PENALTY,
                                !.next_crawl_at = now + ERROR_INTERVAL_SECONDS]]_vars

\* the second failure in a row, some time after the start
C10_Witness ==
  /\ last.op = "complete" /\ last.url = U0 /\ last.ok /\ ~last.success
  /\ now > 0
  /\ HasRow(crawl_urls, U0)
  /\ TheRow(crawl_urls, U0).error_count = 2
  /\ TheRow(crawl_urls, U0).score = BASE_SCORE - (2 * ERROR_PENALTY)
  /\ TheRow(crawl_urls, U0).next_crawl_at = now + ERROR_INTERVAL_SECONDS

\* C12: when the dispatcher finds a candidate disallowed by robots.txt, the url becomes
\* blocked (once the UPDATE commits), the domain lock and the work queue stay as they
\* were, and that dispatcher goes on with the next candidate of its tick.
C12_RobotsDenyBlocks ==
  [][last'.op = "mark_blocked" =>
       /\ last'.ok => /\ HasRow(crawl_urls', last'.url)
                      /\ TheRow(crawl_urls', last'.url).status = "blocked"
       /\ locks' = locks
       /\ queue' = queue
       /\ \E d \in DISPATCHERS :
            /\ disp[d].pc = "loop" /\ disp[d].cands # << >>
            /\ Head(disp[d].cands).url = last'.url
            /\ disp' = [disp EXCEPT ![d].cands = Tail(disp[d].cands)]]_vars

\* a candidate was blocked at dispatch with no lock taken and nothing queued, and the
\* tick has another candidate to go on with
C12_Witness ==
  /\ last.op = "mark_blocked" /\ last.ok /\ last.url = U1
  /\ StatusOf(U1) = "blocked"
  /\ ~LockExists(locks, netloc(U1), now)
  /\ queue = << >>
  /\ \E d \in DISPATCHERS : disp[d].pc = "loop" /\ disp[d].cands # << >>

\* C13: when a url at a depth below MAX_DEPTH has been crawled and is marked done, every
\* link of its page that is not anomalous and that robots.txt does not govern has a row,
\* and a row registered from this page is at the depth of the page plus one.
C13_LinksRegisteredWhenDone ==
  (last.op = "complete" /\ last.success /\ last.ok) =>
    LET page == TheRow(crawl_urls, last.url)
        links == page_links(last.url)
    IN page.depth + 1 <= MAX_DEPTH =>
         \A i \in 1..Len(links) :
           (~is_anomalous(links[i]) /\ links[i] \notin ROBOTS_GOVERNED) =>
              /\ HasRow(crawl_urls, links[i])
              /\ TheRow(crawl_urls, links[i]).parent = last.url =>
                   TheRow(crawl_urls, links[i]).depth = page.depth + 1

C15_TimeoutMarksFailure ==
  [][(last'.op = "timeout" /\ HasRow(crawl_urls, last'.url)
        /\ TheRow(crawl_urls, last'.url).status = "crawling") =>
       LET r == TheRow(crawl_urls, last'.url)
           r2 == TheRow(crawl_urls', last'.url)
       IN /\ r2.status \in {"error", "deleted"}
          /\ r2.status = "error" => r2.error_count = r.error_count + 1]_vars

\* C16: POST /admin/crawl leaves a submitted url that passes the anomaly and robots
\* gates with a row (pending at depth 0 when it had none) and puts nothing on the work
\* queue.
C16_AdminCrawlRegistersSeed ==
  [][last'.op = "admin_crawl" =>
       LET url == last'.url
       IN /\ queue' = queue
          /\ (~is_anomalous(url) /\ url \notin ROBOTS_GOVERNED) =>
               /\ HasRow(crawl_urls', url)
               /\ ~HasRow(crawl_urls, url) =>
                    /\ TheRow(crawl_urls', url).status = "pending"
                    /\ TheRow(crawl_urls', url).depth = 0]_vars

\* C17: a search for a non-empty query that is answered and that repeats, within
\* TTL_SECONDS, an answered search with the same normalized query, filters and limit
\* does not query the index: the two searches make one index query.
C17_RepeatedSearchQueriesOnce ==
  [][(last'.op = "search" /\ search'.resp.status = 200
        /\ normalize(search'.resp.q) # << >>
        /\ \E x \in search.served :
             /\ x.q = normalize(search'.resp.q) /\ x.f = search'.resp.f
             /\ x.limit = search'.resp.limit
             /\ now < x.at + TTL_SECONDS) =>
       search'.index_queries = search.index_queries]_vars

C20_EmptyQueryRejected ==
  [][(last'.op = "search" /\ normalize(search'.resp.q) = << >>) =>
       /\ search'.resp.status \in {400, 422}
       /\ search'.search_logs = search.search_logs
       /\ search'.index_queries = search.index_queries
       /\ search'.cache = search.cache]_vars

C22_ClickLoggedOrError ==
  [][last'.op = "click" =>
       LET c == search'.click
       IN /\ c.status \in {"ok", "error"}
          /\ c.status = "ok" =>
               /\ Len(search'.click_logs) = Len(search.click_logs) + 1
               /\ SubSeq(search'.click_logs, 1, Len(search.click_logs)) = search.click_logs
               /\ search'.click_logs[Len(search'.click_logs)].url = last'.url
               /\ search'.click_logs[Len(search'.click_logs)].rank = last'.depth
          /\ c.db # "ok" => c.status = "error" /\ search'.click_logs = search.click_logs]_vars

\* C23: the output of normalize has no whitespace at either end and no two whitespace
\* characters in a row, it is empty for the empty query, and normalize maps it to itself.
C23_NormalizeIdempotent ==
  LET n == search.norm
  IN /\ n.calls >= 1 =>
          /\ n.raw = << >> => n.out = << >>
          /\ n.out # << >> => ~IsSpace(n.out[1]) /\ ~IsSpace(n.out[Len(n.out)])
          /\ \A i \in 1..(Len(n.out) - 1) : ~(IsSpace(n.out[i]) /\ IsSpace(n.out[i + 1]))
     /\ n.calls = 2 => n.again = n.out

\* ideographic space, fullwidth 'A', tab, 'a': normalized twice to 'a', space, 'a'
C23_Witness ==
  /\ search.norm.calls = 2
  /\ search.norm.raw = <<12288, 65313, 9, 97>>
  /\ search.norm.out = <<97, 32, 97>>

\* the strictly ascending sequence of the members of a set of numbers
Ascending(set) ==
  CHOOSE seq \in [1..Cardinality(set) -> set] :
    \A i, j \in 1..Cardinality(set) : i < j => seq[i] < seq[j]

\* the place in the expanded query where the group of the i-th term begins, the groups
\* being those of the sets {term} \cup synonyms(term)
RECURSIVE GroupStart(_, _, _)
GroupStart(query, synsets, i) ==
  IF i = 1 THEN 1
  ELSE LET n == Cardinality({query[i - 1]} \cup synsets[query[i - 1]])
       IN GroupStart(query, synsets, i - 1) + (IF n > 1 THEN 2 * n + 1 ELSE 1) + 1

\* C24: the expanded query is, term by term and separated by single spaces, the bare
\* term when {term} \cup synonyms(term) has one member and otherwise the members in
\* ascending order, without repetition, joined by OR inside parentheses; it depends on
\* the set of synonyms of a term only, not on the order of the list.
C24_ExpandSortedGroups ==
  LET e == search.expansion
      synsets == [t \in TERMS |-> {e.synonyms[t][k] : k \in 1..Len(e.synonyms[t])}]
      Members(i) == Ascending({e.query[i]} \cup synsets[e.query[i]])
      Size(i) == Len(Members(i))
      Start(i) == GroupStart(e.query, synsets, i)
  IN e.calls = 1 =>
       /\ e.query = << >> => e.out = << >>
       /\ \A i \in 1..Len(e.query) :
            /\ i > 1 => e.out[Start(i) - 1] = 0
            /\ IF Size(i) = 1 THEN e.out[Start(i)] = e.query[i]
               ELSE /\ e.out[Start(i)] = -1
                    /\ e.out[Start(i) + 2 * Size(i)] = -2
                    /\ \A k \in 1..Size(i) : e.out[Start(i) + 2 * k - 1] = Members(i)[k]
                    /\ \A k \in 1..(Size(i) - 1) : e.out[Start(i) + 2 * k] = -3
       /\ e.query # << >> =>
            Len(e.out) = Start(Len(e.query))
                           + (IF Size(Len(e.query)) > 1 THEN 2 * Size(Len(e.query)) ELSE 0)

\* "1 2" with 1 listed as having the synonyms 3, 3, 2: (1 OR 2 OR 3) 2
C24_Witness ==
  /\ search.expansion.calls = 1
  /\ search.expansion.query = <<1, 2>>
  /\ search.expansion.synonyms[1] = <<3, 3, 2>>
  /\ search.expansion.synonyms[2] = << >>
  /\ search.expansion.out = <<-1, 1, -3, 2, -3, 3, -2, 0, 2>>

\* C25: is_anomalous is true when the URL is longer than MAX_URL_LENGTH or when, among
\* the non-empty segments of its path, some segment is followed by
\* MAX_PATH_SEGMENT_REPEATS consecutive repetitions of itself, and false otherwise: for
\* a path without segments, for segments that all differ from their predecessor, and
\* for a run one repetition short of the limit.
C25_AnomalousLengthOrRepeats ==
  LET a == search.anomaly
      segs == SelectSeq(a.pieces, LAMBDA s : s # "")
      Repeats(i) == \A j \in 1..MAX_PATH_SEGMENT_REPEATS : segs[i + j] = segs[i]
  IN a.calls = 1 =>
       (a.out <=> (\/ a.length > MAX_URL_LENGTH
                   \/ \E i \in 1..(Len(segs) - MAX_PATH_SEGMENT_REPEATS) : Repeats(i)))

\* /a//a/a/a at the length limit: a is repeated three times, the empty piece aside
C25_Witness ==
  /\ search.anomaly.calls = 1
  /\ search.anomaly.length = MAX_URL_LENGTH
  /\ search.anomaly.pieces = <<"a", "", "a", "a", "a">>
  /\ search.anomaly.out

\* C26: a host is over quota exactly when its counter exists and is greater than
\* MAX_URLS_PER_DOMAIN. A dispatcher that comes to a candidate of an unlocked host skips
\* it without acquiring the lock, changing a row or enqueueing anything when the host
\* is over quota, and otherwise goes on to the robots check and the lock (a counter
\* equal to the maximum or an expired one does not stop it). A completion with
\* success=true that commits adds one to the counter of the host, and no other step
\* changes a counter.
C26_QuotaSkipsOnlyAboveMax ==
  [][/\ \A d \in DISPATCHERS :
          (/\ disp[d].pc = "loop" /\ disp'[d] # disp[d]
           /\ disp[d].cands # << >> /\ disp[d].count < DISPATCH_LIMIT
           /\ ~LockExists(locks, netloc(Head(disp[d].cands).url), now)) =>
            LET domain == netloc(Head(disp[d].cands).url)
                over == /\ domain_count[domain].exp > now
                        /\ domain_count[domain].n > MAX_URLS_PER_DOMAIN
            IN IF over
               THEN /\ locks' = locks /\ crawl_urls' = crawl_urls /\ queue' = queue
                    /\ reserved' = reserved
                    /\ disp'[d].pc = "loop" /\ disp'[d].cands = Tail(disp[d].cands)
                    /\ last'.op = "over_quota"
               ELSE \/ disp'[d].pc = "reserve" /\ LockExists(locks', domain, now)
                    \/ last'.op = "mark_blocked"
     /\ \A dom \in DOMAINS :
          IF last'.op = "complete" /\ last'.success /\ last'.ok /\ netloc(last'.url) = dom
          THEN CounterValue(domain_count', dom, now') = CounterValue(domain_count, dom, now) + 1
          ELSE (last'.op # "complete" \/ ~last'.success) => domain_count'[dom] = domain_count[dom]
    ]_vars

\* U0 was dispatched at a counter of MAX_URLS_PER_DOMAIN and crawled, which made it
\* MAX_URLS_PER_DOMAIN + 1; a later tick skips U1 of the same host
C26_Witness ==
  /\ last.op = "over_quota" /\ last.url = U1
  /\ CounterValue(domain_count, netloc(U1), now) = MAX_URLS_PER_DOMAIN + 1
  /\ \E r \in crawl_urls : r.url = U0 /\ r.status = "done"
  /\ \E r \in crawl_urls : r.url = U1 /\ r.status = "pending"
  /\ Len(queue) = 1

\* C27: a can_fetch call made less than ROBOTS_CACHE_TTL after a robots.txt fetch of the
\* host that completed with an HTTP response (200, 4xx or 5xx) asks the network for
\* nothing; a call whose fetch ends in a network error answers true and leaves the
\* cache as it was, and the call after it fetches again.
C27_RobotsAnswersCached ==
  [][last'.op = "can_fetch" =>
       LET r == search.robots
           fetched == search'.robots.fetches = r.fetches + 1
       IN /\ (r.responded_at >= 0 /\ now < r.responded_at + ROBOTS_CACHE_TTL) =>
               search'.robots.fetches = r.fetches
          /\ search'.robots.net_error =>
               last'.ret /\ search'.robots.cache = r.cache
          /\ r.net_error => fetched]_vars

\* C28: when the transaction of register, reserve, complete or mark_blocked fails, at
\* execute or at commit, the tables are as they were and the caller is told: of these
\* operations only reserve has a result, so the failed operation is a reserve that
\* returned false; and a reserve that returned true has committed its status change.
C28_StorageFailureSurfaced ==
  [][/\ (/\ last'.op \in {"register", "reserve", "complete", "mark_blocked"}
         /\ used'.faults = used.faults + 1) =>
           /\ crawl_urls' = crawl_urls /\ web_pages' = web_pages
           /\ last'.op = "reserve" /\ ~last'.ret
     /\ (last'.op = "reserve" /\ last'.ret) => last'.ok]_vars

\* C29: a dispatcher that finds redis unreachable when it comes to a candidate degrades
\* open: it takes no lock and goes on to reserve the candidate, keeping the rest of its
\* tick, instead of aborting.
C29_DispatcherDegradesOpen ==
  [][last'.op = "redis_down" =>
       \A d \in DISPATCHERS :
         disp'[d] # disp[d] =>
           /\ disp'[d].pc = "reserve"
           /\ disp'[d].cands = disp[d].cands
           /\ locks' = locks]_vars

\* the links kept, each at its first occurrence, in the order of the hrefs
RECURSIVE FirstOccurrences(_, _)
FirstOccurrences(hrefs, seen) ==
  IF hrefs = << >> THEN << >>
  ELSE LET h == Head(hrefs)
           keep == /\ ~h.ignored /\ h.netloc = netloc(U0) /\ h.scheme \in {"http", "https"}
                   /\ h.path \notin EXCLUDED_PATHS
           link == [h EXCEPT !.fragment = ""]
       IN IF keep /\ link \notin seen
          THEN <<link>> \o FirstOccurrences(Tail(hrefs), seen \cup {link})
          ELSE FirstOccurrences(Tail(hrefs), seen)

\* C30: the links returned are, without repetition and in the order of their first
\* occurrence among the hrefs, the resolved URLs of the base host with scheme http or
\* https whose href is not mailto:, tel:, javascript: or fragment-only and whose path
\* is not excluded, each with its fragment removed and its query kept.
C30_LinksInFirstOccurrenceOrder ==
  search.links.calls = 1 => search.links.out = FirstOccurrences(search.links.hrefs, {})

\* C31: the snippet is empty for empty content; otherwise the content is split into
\* sentences after '.', '!', '?' and the ideographic full stop, each sentence is scored
\* by the number of distinct lowercased query tokens it contains, and the snippet is the
\* first sentence of the highest score cut to MAX_LENGTH characters with an ellipsis,
\* or the head of the content cut the same way when no sentence contains a token.
C31_SnippetFirstBestSentence ==
  LET sn == search.snippet
      tokens == {lower(sn.query[k]) : k \in 1..Len(sn.query)}
      sents == split_sentences(sn.content, {46, 33, 63, 12290}, 1, 1)
      Score(i) == Cardinality({t \in tokens : Contains(lower(sents[i]), t)})
      Cut(text) == IF Len(text) <= MAX_LENGTH THEN text
                   ELSE SubSeq(text, 1, MAX_LENGTH) \o <<46, 46, 46>>
      Best(i) == /\ Score(i) > 0
                 /\ \A j \in 1..Len(sents) : Score(j) <= Score(i)
                 /\ \A j \in 1..(i - 1) : Score(j) < Score(i)
  IN sn.calls = 1 =>
       IF sn.content = << >> THEN sn.out = << >>
       ELSE IF \E i \in 1..Len(sents) : Best(i)
       THEN \E i \in 1..Len(sents) : Best(i) /\ sn.out = Cut(sents[i])
       ELSE sn.out = Cut(sn.content)

\* C32: while no dispatcher is between its lock and its enqueue, every url whose row
\* is crawling has exactly one work item, on the queue or with a worker.
C32_CrawlingHasOneWorkItem ==
  (\A d \in DISPATCHERS : disp[d].pc # "reserve") =>
    \A r \in crawl_urls :
      r.status = "crawling" =>
        Cardinality({i \in 1..Len(queue) : queue[i].url = r.url})
          + Cardinality({w \in WORKERS : worker[w].pc # "idle" /\ worker[w].url = r.url}) = 1

\* C33: a row is created pending, becomes crawling only from pending, done or error,
\* and becomes done, error, blocked or deleted only from crawling; no step changes a
\* status in any other way.
C33_LifecycleTransitions ==
  [][\A url \in URLS :
       LET before == IF HasRow(crawl_urls, url) THEN TheRow(crawl_urls, url).status
                     ELSE "absent"
           after == IF HasRow(crawl_urls', url) THEN TheRow(crawl_urls', url).status
                    ELSE "absent"
       IN before # after =>
            \/ before = "absent" /\ after = "pending"
            \/ before \in ELIGIBLE /\ after = "crawling"
            \/ before = "crawling" /\ after \in {"done", "error", "blocked", "deleted"}]_vars

\* C34: a row that is blocked or deleted keeps its status in every step, and no step
\* puts a work item for its url on the queue.
C34_BlockedDeletedAbsorbing ==
  [][\A r \in crawl_urls :
       r.status \in {"blocked", "deleted"} =>
         /\ \E r2 \in crawl_urls' : r2.url = r.url /\ r2.status = r.status
         /\ Len(queue') > Len(queue) => queue'[Len(queue')].url # r.url]_vars

\* C35: every row that is not deleted has an error_count from 0 to MAX_RETRIES, and a
\* complete with success=true that commits leaves the error_count of its row at 0.
C35_ErrorCountWithinBudget ==
  /\ \A r \in crawl_urls :
       r.status # "deleted" => 0 <= r.error_count /\ r.error_count <= MAX_RETRIES
  /\ \A r \in crawl_urls :
       (last.op = "complete" /\ last.url = r.url /\ last.ok /\ last.success) =>
         r.error_count = 0

\* the failure after MAX_RETRIES failures: the row is deleted and its count was not
\* raised above MAX_RETRIES
C35_Witness ==
  /\ last.op = "complete" /\ last.url = U0 /\ last.ok /\ ~last.success
  /\ \E r \in crawl_urls :
       /\ r.url = U0 /\ r.status = "deleted" /\ r.error_count = MAX_RETRIES
       /\ r.parent = "init"

\* C36: after an upsert that reports success the page has its row, its page-image links
\* are exactly the images of the record given, and every image asset stored before
\* keeps its canonical url; after an upsert in which a statement failed the three
\* tables are as they were and it reports failure.
C36_UpsertAllOrNothing ==
  [][last'.op = "upsert" =>
       LET old == search.index
           new == search'.index
           hashes == {new.record[i].hash : i \in 1..Len(new.record)}
       IN /\ new.ret =>
               /\ new.page \in new.pages
               /\ {l.hash : l \in {x \in new.page_images : x.page_url = new.page}} = hashes
               /\ {l \in new.page_images : l.page_url # new.page}
                    = {l \in old.page_images : l.page_url # new.page}
               /\ old.images \subseteq new.images
               /\ {a.hash : a \in new.images} = {a.hash : a \in old.images} \cup hashes
          /\ new.db = "execute_error" =>
               /\ ~new.ret
               /\ new.pages = old.pages /\ new.images = old.images
               /\ new.page_images = old.page_images]_vars

\* a tick of the loop has just been lost to an exception raised at a candidate
TickFailed == last.op \in {"redis_down", "enqueue_failed"}

IntentHits ==
  {r \in search.intent.relations :
     r.source_query = search.intent.query /\ r.score >= 80}

\* C38: the intent expansion returns "<query> OR <target>" exactly when query_relations
\* has a row for the normalized query itself with score >= 0.8 and the lookup did not
\* raise, the target being one of the highest score, and the query itself otherwise;
\* the synonym expansion gets the intent-expanded string, the snippets and the log the
\* normalized query.
C38_IntentExpansion ==
  search.intent.calls = 1 =>
    LET i == search.intent
    IN /\ (i.db # "execute_error" /\ IntentHits # {}) =>
            \E r \in IntentHits :
              /\ \A o \in IntentHits : o.score <= r.score
              /\ i.out = i.query \o <<OR_WORD>> \o r.target_query
       /\ (i.db = "execute_error" \/ IntentHits = {}) => i.out = i.query
       /\ i.expanded = expand(i.out, with_or_word(i.synonyms))
       /\ i.snippet_query = i.query
       /\ i.logged = i.query

\* a query with a row at exactly 0.8 and a row below it: the expansion took the first,
\* and the synonyms then expanded a word of the intent-expanded string
C38_Witness ==
  /\ search.intent.calls = 1
  /\ search.intent.query = <<1, 2>>
  /\ \E r \in search.intent.relations :
       r.source_query = <<1, 2>> /\ r.score = 80 /\ r.target_query = <<3>>
  /\ \E r \in search.intent.relations : r.source_query = <<1, 2>> /\ r.score = 79
  /\ search.intent.out = <<1, 2, OR_WORD, 3>>
  /\ search.intent.expanded = <<-1, 1, -3, 2, -2, 0, 2, 0, OR_WORD, 0, 3>>

C40_DepthIsMinimum ==
  (last.op = "register" /\ last.ok) =>
    \A r \in crawl_urls : r.url = last.url => r.depth <= last.depth

\* C18: a lookup that redis answers returns the value last stored for the same query,
\* the same filter entries (in any order) and the same limit while less than TTL_SECONDS
\* have passed since it was stored, and misses otherwise: after the ttl, when nothing was
\* stored for them, or when only other queries, filters or limits were stored.
C18_CacheRoundTrip ==
  [][(last'.op = "cache_get" /\ last'.ok) =>
       LET r == search'.resp
           put == {x \in search.stored : x.q = r.q /\ x.f = r.f /\ x.limit = r.limit}
           fresh == {x \in put : now < x.at + TTL_SECONDS}
       IN IF fresh = {} THEN ~r.hit
          ELSE r.hit /\ \A x \in fresh : r.value = x.value]_vars

\* a value stored under one order of the filter entries is found under the other order,
\* some time later and after a value was stored for another limit
C18_Witness ==
  /\ last.op = "cache_get" /\ last.ok
  /\ search.resp.hit /\ search.resp.value = <<2, 1>>
  /\ search.resp.f = {CATEGORY, DOMAIN_FILTER}
  /\ now > 0
  /\ \E e \in search.cache : e.key[3] = <<CATEGORY, DOMAIN_FILTER>> /\ e.key[4] = search.resp.limit
  /\ \E x \in search.stored : x.q = search.resp.q /\ x.f = search.resp.f
                                /\ x.limit # search.resp.limit

TypeOK ==
  /\ \A r \in crawl_urls : r.url \in URLS /\ r.status \in STATUSES
  /\ web_pages \subseteq URLS

====
